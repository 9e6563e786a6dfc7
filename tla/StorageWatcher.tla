----------------------------- MODULE StorageWatcher -----------------------------
(***************************************************************************)
(* A watcher of pkg/storage/watch.go: the goroutine that takes the events  *)
(* of fsnotify, gathers them for the debounce time and hands them to a     *)
(* reader, and that watches the directories created below a watched one.   *)
(*                                                                         *)
(* External: the file system, and fsnotify, which reports a change of a    *)
(* name when the directory of that name is watched, one report at a time.  *)
(* A directory is created once and, when it is empty, removed for good.    *)
(***************************************************************************)
EXTENDS Integers, SequencesExt

CONSTANTS
  Dir, File, Root,
  Parent,        \* Dir \cup File -> Dir \cup {Root}
  RawOps,        \* the sets of operations one report on a file may carry
  Buffer,        \* of the events and of the errors channel
  MaxChanges,    \* bounds the writes of files
  MaxErrors      \* bounds the errors fsnotify reports

ASSUME WatcherAssumption ==
  /\ Root \notin Dir \cup File /\ Dir \cap File = {}
  /\ Parent \in [Dir \cup File -> Dir \cup {Root}]
  /\ Buffer \in Nat \ {0} /\ MaxChanges \in Nat /\ MaxErrors \in Nat

VARIABLES
  options,   \* [recursive, debounced]
  lives,     \* Dir -> "absent", "present", "gone"
  left,      \* [changes, errors]: how many are still to come
  watched,   \* directories fsnotify watches
  raw,       \* what fsnotify has to report: [path, op], or Failure
  loop,      \* [at, walk, event]: where the goroutine is; "watch": Watch itself, before it
  pending,   \* key -> event, gathered until the timer fires
  batch,     \* events being flushed
  timer,     \* "stopped", "running", "fired"
  events, errors,  \* the channels to the reader
  done,      \* "open", "closing": done is closed, "closed": and so is fsnotify
  owed,      \* events the loop has taken and the reader has not got (history)
  cut        \* a walk met a directory that was gone and stopped there (history)

filesystem == <<lives, left>>
channels == <<events, errors>>
vars == <<options, lives, left, watched, raw, loop, pending, batch, timer, events, errors, done,
          owed, cut>>

\* What fsnotify sends on its errors channel.
Failure == [path |-> Root, op |-> {}]

At(place) == [loop EXCEPT !.at = place]

Init ==
  /\ options \in [recursive : BOOLEAN, debounced : BOOLEAN]
  /\ lives \in [Dir -> {"absent", "present"}]
  /\ \A d \in Dir : lives[d] = "absent" \/ Parent[d] \in {Root} \cup {p \in Dir : lives[p] = "present"}
  /\ left = [changes |-> MaxChanges, errors |-> MaxErrors]
  /\ watched = {} /\ raw = <<>>
  /\ loop = [at |-> "watch", walk |-> <<>>, event |-> <<>>]
  /\ pending = <<>>  \* no key
  /\ batch = {}
  /\ timer = "stopped"
  /\ events = <<>> /\ errors = <<>>
  /\ done = "open"
  /\ owed = {} /\ cut = FALSE

-----------------------------------------------------------------------------
(* The file system and fsnotify. *)

Present(d) == d \in {Root} \cup {e \in Dir : lives[e] = "present"}

Children(d) == {c \in Dir : Parent[c] = d /\ Present(c)}

Reported(path, op) ==
  raw' = IF Parent[path] \in watched /\ done # "closed"
         THEN Append(raw, [path |-> path, op |-> op]) ELSE raw

CreateDirectory(d) ==
  /\ lives[d] = "absent" /\ Present(Parent[d])
  /\ lives' = [lives EXCEPT ![d] = "present"]
  /\ Reported(d, {"create"})
  /\ UNCHANGED <<options, left, watched, loop, pending, batch, timer, channels, done, owed, cut>>

RemoveDirectory(d) ==
  /\ lives[d] = "present" /\ Children(d) = {}
  /\ lives' = [lives EXCEPT ![d] = "gone"]
  /\ watched' = watched \ {d}
  /\ Reported(d, {"remove"})
  /\ UNCHANGED <<options, left, loop, pending, batch, timer, channels, done, owed, cut>>

ChangeFile(f) ==
  /\ left.changes > 0 /\ Present(Parent[f])
  /\ left' = [left EXCEPT !.changes = @ - 1]
  /\ \E op \in RawOps : Reported(f, op)
  /\ UNCHANGED <<options, lives, watched, loop, pending, batch, timer, channels, done, owed, cut>>

\* Such as an overflow of the system's queue.
RawError ==
  /\ left.errors > 0 /\ done # "closed" /\ watched # {}
  /\ left' = [left EXCEPT !.errors = @ - 1]
  /\ raw' = Append(raw, Failure)
  /\ UNCHANGED <<options, lives, watched, loop, pending, batch, timer, channels, done, owed, cut>>

-----------------------------------------------------------------------------
(* Watching directories. *)

\* Mutant: a directory is listed before it is watched.
VisitListFirst(d) == <<[dir |-> d, step |-> "list"], [dir |-> d, step |-> "add"]>>

\* WalkDir: the function adds the directory, then its entries are read and walked.
Visit(d) == <<[dir |-> d, step |-> "add"], [dir |-> d, step |-> "list"]>>

\* addRecursive goes on with the walk, or returns the error of a directory that is gone.
Walk ==
  LET top == Head(loop.walk)
      below == IF top.step = "list" THEN FlattenSeq([k \in DOMAIN SetToSeq(Children(top.dir)) |->
                                             Visit(SetToSeq(Children(top.dir))[k])]) ELSE <<>>
  IN  /\ loop.walk # <<>>
      /\ \/ /\ Present(top.dir)
            /\ loop' = [loop EXCEPT !.walk = below \o Tail(@)]
            /\ watched' = IF top.step = "add" THEN watched \cup {top.dir} ELSE watched
            /\ UNCHANGED cut
         \/ /\ ~Present(top.dir)
            /\ loop' = [loop EXCEPT !.walk = <<>>]
            /\ cut' = TRUE
            /\ UNCHANGED watched
      /\ UNCHANGED <<options, filesystem, raw, pending, batch, timer, channels, done, owed>>

Watch ==
  /\ loop.at = "watch" /\ loop.walk = <<>>
  /\ \/ /\ watched = {}
        /\ loop' = [loop EXCEPT !.walk = IF options.recursive THEN Visit(Root)
                                         ELSE <<[dir |-> Root, step |-> "add"]>>]
        /\ UNCHANGED <<watched, raw>>
     \/ /\ watched # {} /\ cut
        /\ loop' = At("failed")
        /\ watched' = {} /\ raw' = <<>>
     \/ /\ watched # {} /\ ~cut
        /\ loop' = At("select")
        /\ UNCHANGED <<watched, raw>>
  /\ UNCHANGED <<options, filesystem, pending, batch, timer, channels, done, owed, cut>>

-----------------------------------------------------------------------------
(* The loop. *)

Ready == loop.at = "select" /\ loop.walk = <<>>

WatchOps == <<"create", "write", "remove", "rename", "chmod">>

\* The first of the operations a report carries.
NormalizeWatchOp(op) ==
  LET ks == {k \in DOMAIN WatchOps : WatchOps[k] \in op}
  IN  WatchOps[CHOOSE k \in ks : \A j \in ks : k <= j]

NormalizeEvent(report) == <<report.path, NormalizeWatchOp(report.op)>>

\* Mutant: a later event on a path replaces whatever is pending on it.
PendingKeyOfPath(e) == e[1]

\* normalized.Path + "|" + normalized.Op
PendingKey(e) == e

TakeEvent ==
  /\ Ready /\ raw # <<>> /\ Head(raw) # Failure
  /\ raw' = Tail(raw)
  /\ LET report == Head(raw)
         e == NormalizeEvent(report)
         added == options.recursive /\ "create" \in report.op
                    /\ report.path \in Dir /\ Present(report.path)
         walk == IF added THEN Visit(report.path) ELSE <<>>
     IN  /\ owed' = owed \cup {e}
         /\ \/ /\ options.debounced
               /\ pending' = [k \in DOMAIN pending \cup {PendingKey(e)} |->
                                IF k = PendingKey(e) THEN e ELSE pending[k]]
               /\ timer' = "running"
               /\ loop' = [loop EXCEPT !.walk = walk]
            \/ /\ ~options.debounced
               /\ loop' = [at |-> "send", walk |-> walk, event |-> e]
               /\ UNCHANGED <<pending, timer>>
  /\ UNCHANGED <<options, filesystem, watched, batch, channels, done, cut>>

TakeError ==
  /\ Ready /\ raw # <<>> /\ Head(raw) = Failure
  /\ raw' = Tail(raw)
  /\ loop' = At("error")
  /\ UNCHANGED <<options, filesystem, watched, pending, batch, timer, channels, done, owed, cut>>

Fire ==
  /\ timer = "running"
  /\ timer' = "fired"
  /\ UNCHANGED <<options, filesystem, watched, raw, loop, pending, batch, channels, done, owed, cut>>

\* What is pending becomes the batch; then the loop goes on, or ends.
Flush(next) ==
  /\ batch' = {pending[k] : k \in DOMAIN pending}
  /\ pending' = <<>>
  /\ loop' = At(next)

TakeTimer ==
  /\ Ready /\ timer = "fired"
  /\ timer' = "stopped"
  /\ Flush("flush")
  /\ UNCHANGED <<options, filesystem, watched, raw, channels, done, owed, cut>>

\* <-w.done, or the events of fsnotify closed.
TakeDone ==
  /\ Ready /\ done # "open"
  /\ Flush("last flush")
  /\ UNCHANGED <<options, filesystem, watched, raw, timer, channels, done, owed, cut>>

\* A batch is sent in no fixed order.
SendEvent ==
  /\ loop.walk = <<>> /\ Len(events) < Buffer
  /\ \/ /\ loop.at = "send"
        /\ events' = Append(events, loop.event)
        /\ loop' = At("select")
        /\ UNCHANGED batch
     \/ /\ loop.at \in {"flush", "last flush"}
        /\ \E e \in batch :
             /\ events' = Append(events, e)
             /\ batch' = batch \ {e}
        /\ UNCHANGED loop
  /\ UNCHANGED <<options, filesystem, watched, raw, pending, timer, errors, done, owed, cut>>

\* The rest of a batch is dropped when done is closed.
FlushReturns ==
  /\ loop.at \in {"flush", "last flush"}
  /\ batch = {} \/ done # "open"
  /\ batch' = {}
  /\ loop' = At(IF loop.at = "flush" THEN "select" ELSE "ended")
  /\ UNCHANGED <<options, filesystem, watched, raw, pending, timer, channels, done, owed, cut>>

\* An event that is not debounced is dropped with everything else.
SendDone ==
  /\ loop.at = "send" /\ loop.walk = <<>> /\ done # "open"
  /\ loop' = At("ended")
  /\ UNCHANGED <<options, filesystem, watched, raw, pending, batch, timer, channels, done, owed, cut>>

\* Mutant: an error waits for its reader whatever happens.
ErrorDoneNever == FALSE

ErrorDone == done # "open"

SendError ==
  /\ loop.at = "error"
  /\ \/ Len(errors) < Buffer /\ errors' = Append(errors, Failure)
     \/ ErrorDone /\ UNCHANGED errors
  /\ loop' = At("select")
  /\ UNCHANGED <<options, filesystem, watched, raw, pending, batch, timer, events, done, owed, cut>>

-----------------------------------------------------------------------------
(* The reader: it takes events and errors until it closes the watcher. *)

ReadEvent ==
  /\ done = "open" /\ events # <<>>
  /\ events' = Tail(events)
  /\ owed' = (owed \ {Head(events)}) \cup {pending[k] : k \in DOMAIN pending} \cup batch
               \cup ToSet(Tail(events)) \cup (IF loop.at = "send" THEN {loop.event} ELSE {})
  /\ UNCHANGED <<options, filesystem, watched, raw, loop, pending, batch, timer, errors, done, cut>>

ReadError ==
  /\ done = "open" /\ errors # <<>>
  /\ errors' = Tail(errors)
  /\ UNCHANGED <<options, filesystem, watched, raw, loop, pending, batch, timer, events, done, owed, cut>>

CloseDone ==
  /\ loop.at \notin {"watch", "failed"} /\ done = "open"
  /\ done' = "closing"
  /\ UNCHANGED <<options, filesystem, watched, raw, loop, pending, batch, timer, channels, owed, cut>>

CloseRaw ==
  /\ done = "closing"
  /\ done' = "closed"
  /\ watched' = {} /\ raw' = <<>>
  /\ UNCHANGED <<options, filesystem, loop, pending, batch, timer, channels, owed, cut>>

-----------------------------------------------------------------------------
External ==
  \/ \E d \in Dir : CreateDirectory(d) \/ RemoveDirectory(d)
  \/ \E f \in File : ChangeFile(f)
  \/ RawError

Reader == ReadEvent \/ ReadError

Next ==
  \/ External \/ Walk \/ Watch
  \/ TakeEvent \/ TakeError \/ TakeTimer \/ TakeDone \/ Fire
  \/ SendEvent \/ FlushReturns \/ SendDone \/ SendError
  \/ Reader \/ CloseDone \/ CloseRaw

\* The goroutine runs, and its select picks among the ready cases at random; the
\* reader goes on until it closes the watcher, which it may do at any time or never.
Fairness ==
  /\ WF_vars(Watch \/ Walk)
  /\ SF_vars(TakeEvent) /\ SF_vars(TakeError) /\ SF_vars(TakeTimer) /\ SF_vars(TakeDone)
  /\ WF_vars(Fire)
  /\ WF_vars(SendEvent \/ FlushReturns \/ SendDone \/ SendError)
  /\ WF_vars(ReadEvent) /\ WF_vars(ReadError)

WatcherSpec == Init /\ [][Next]_vars /\ Fairness

-----------------------------------------------------------------------------
(* Properties. *)

\* Whatever is gathered, replaced, flushed or sent while other events come in, and
\* in whatever order: when the changes are over, the reader has got every event the
\* loop has taken, or has closed the watcher.
EveryEventRead == <>[](done = "open" => owed = {})

\* A recursive watcher comes to watch every directory that lasts, those included that
\* are created while their parent is being added, unless a directory went during a walk.
DirectoriesWatched ==
  <>[](options.recursive /\ done = "open" /\ loop.at # "failed" /\ ~cut =>
         \A d \in Dir : Present(d) => d \in watched)

\* A watcher that is closed ends, and with it the channels, though nobody reads them.
ClosedEnds == done = "closed" ~> loop.at = "ended"

=============================================================================
