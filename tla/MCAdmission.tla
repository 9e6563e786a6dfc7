------------------------------ MODULE MCAdmission ------------------------------
(***************************************************************************)
(* Two instances of a plugin, with manifests that differ in the order and  *)
(* the blanks of their routes, in what they leave to defaults and in their *)
(* base URL, under four configurations.                                    *)
(***************************************************************************)
EXTENDS Admission

At(parts, blanks) == [parts |-> parts, blanks |-> blanks, apart |-> FALSE]
Apart(parts, blanks) == [parts |-> parts, blanks |-> blanks, apart |-> TRUE]

MCKindOf == [a \in Address |-> a]

Grant == [prefixes |-> {}, policies |-> {}, methods |-> {}, hosts |-> {"plugin"},
          networks |-> {"private"}, loopback |-> FALSE, insecure |-> TRUE]

Settings(public, trust) == [key |-> "blog", public |-> At(public, 0), trust |-> trust]

MCConfig == {
  Settings(<<"x">>, Grant),
  Settings(<<"x">>, [Grant EXCEPT !.prefixes = {At(<<"x">>, 0)}]),
  Settings(<<"x">>, [Grant EXCEPT !.prefixes = {At(<<"x", "a">>, 1), At(<<"x", "blog">>, 0)}, !.methods = {"ANY", "GET"},
                                  !.networks = {"loopback", "public"}, !.loopback = TRUE,
                                  !.insecure = FALSE]),
  Settings(<<>>, [Grant EXCEPT !.policies = {"inherit"}]),
  Settings(<<"x">>, None)}

RouteAt(id, path) == [id |-> id, method |-> None, match |-> None, path |-> path,
                      policy |-> None, timeout |-> None]

List == RouteAt("list", At(<<"x", "blog">>, 0))
Wide == RouteAt("wide", At(<<"x">>, 0))
Own(blanks) == RouteAt("own", IF blanks = 0 THEN At(<<"x", "a">>, 0) ELSE Apart(<<"x", "a">>, blanks))
Get == [RouteAt("get", Apart(<<"x", "a">>, 4)) EXCEPT !.method = "GET", !.match = "exact"]
Slow == [List EXCEPT !.timeout = 6]
Never == [List EXCEPT !.timeout = 0]
Public == [RouteAt("top", At(<<"blog">>, 2)) EXCEPT !.policy = "public"]

RoutesList == {
  <<>>, <<List>>, <<Wide>>, <<Slow>>, <<Never>>, <<Public>>,
  <<Own(0), Get>>, <<Get, Own(2)>>, <<Own(4)>>, <<Own(5)>>,
  <<Own(0), [Own(4) EXCEPT !.id = "again"]>>, <<Own(0), [Own(3) EXCEPT !.id = "again"]>>}

Base == [scheme |-> "https", host |-> "plugin"]
Hosts == {"plugin", "other", "private", "loopback"}
Bases == {[scheme |-> s, host |-> h] : s \in {"http", "https"}, h \in Hosts}
           \cup {[scheme |-> "ftp", host |-> "plugin"]}

Manifest(rs, url) == [version |-> 1, routes |-> rs, url |-> url]

MCCommand == {Manifest(rs, Base) : rs \in RoutesList}
               \cup {Manifest(<<List>>, url) : url \in Bases}
               \cup {[Manifest(<<List>>, Base) EXCEPT !.version = 2]}

Instances == Permutations(Instance)

=============================================================================
