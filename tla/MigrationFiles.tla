----------------------------- MODULE MigrationFiles -----------------------------
(***************************************************************************)
(* The migrations of the main service and of IAM (migrations/), statement  *)
(* by statement.  Two tables stand for the eleven of the first file, and   *)
(* of a table's columns and keys only those are kept that another file     *)
(* touches.                                                                *)
(***************************************************************************)
EXTENDS Sequences

Tables == {"users", "roles", "plugin_services", "plugin_instances", "plugin_routes",
           "plugin_audit_events", "plugin_signature_nonces", "plugin_route_claims",
           "iam_refresh_sessions"}

\* The shapes of the tables, the health columns and idx_plugin_instances_health.
Features == {"v1", "v2", "v3", "health", "health_index"}

CreateTable(t, features) ==
  [op |-> "create", table |-> t, features |-> features, lenient |-> FALSE]

CreateIfNotExists(t, features) ==
  [op |-> "create", table |-> t, features |-> features, lenient |-> TRUE]

DropIfExists(t) == [op |-> "drop", table |-> t, features |-> {}, lenient |-> TRUE]

Alter(op, features) ==
  [op |-> op, table |-> "plugin_instances", features |-> features, lenient |-> FALSE]

-----------------------------------------------------------------------------

CmsUp == << CreateIfNotExists("users", {"v1"}), CreateIfNotExists("roles", {"v1"}) >>

CmsDown == << DropIfExists("roles"), DropIfExists("users") >>

RegistryUp == << CreateIfNotExists("plugin_services", {"v1"}),
                 CreateIfNotExists("plugin_instances", {"v1"}),
                 CreateIfNotExists("plugin_routes", {"v1"}) >>

RegistryDown == << DropIfExists("plugin_routes"), DropIfExists("plugin_instances"),
                   DropIfExists("plugin_services") >>

HardeningUp == << Alter("add", {"health"}), Alter("add", {"health_index"}),
                  CreateIfNotExists("plugin_audit_events", {"v1"}) >>

HardeningDown == << DropIfExists("plugin_audit_events"), Alter("remove", {"health_index"}),
                    Alter("remove", {"health"}) >>

SessionsUp == << CreateIfNotExists("iam_refresh_sessions", {"v1"}) >>

SessionsDown == << DropIfExists("iam_refresh_sessions") >>

DropV1 == << DropIfExists("plugin_audit_events"), DropIfExists("plugin_routes"),
             DropIfExists("plugin_instances"), DropIfExists("plugin_services") >>

DropV2 == <<DropIfExists("plugin_signature_nonces")>> \o DropV1

\* The v2 and the v3 tables differ in their columns.
CreateShape(shape) ==
  << CreateTable("plugin_services", {shape}),
     CreateTable("plugin_instances", {shape, "health"}),
     CreateTable("plugin_routes", {shape}) >>

CreateLogs(shape) == << CreateTable("plugin_audit_events", {shape}),
                        CreateTable("plugin_signature_nonces", {shape}) >>

V2Up == DropV2 \o CreateShape("v2") \o CreateLogs("v2")

V2Down == DropV2 \o
  << CreateIfNotExists("plugin_services", {"v1"}),
     CreateIfNotExists("plugin_instances", {"v1", "health", "health_index"}),
     CreateIfNotExists("plugin_routes", {"v1"}),
     CreateIfNotExists("plugin_audit_events", {"v1"}) >>

\* Mutant: one of the tables that the file creates is not dropped before.
DropV3KeepsClaims == DropV2

DropV3 == <<DropIfExists("plugin_route_claims")>> \o DropV2

V3Up == DropV3 \o CreateShape("v3")
               \o <<CreateTable("plugin_route_claims", {"v3"})>> \o CreateLogs("v3")

V3Down == DropV3 \o CreateShape("v2") \o CreateLogs("v2")

-----------------------------------------------------------------------------

Up == <<CmsUp, RegistryUp, HardeningUp, SessionsUp, V2Up, V3Up>>

Down == <<CmsDown, RegistryDown, HardeningDown, SessionsDown, V2Down, V3Down>>

=============================================================================
