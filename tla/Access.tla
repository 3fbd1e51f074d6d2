-------------------------------- MODULE Access --------------------------------
(***************************************************************************)
(* Who may call what (infra/auth.ts and the requireRole of each route of   *)
(* server.ts): API_KEYS is read once, at startup, into a table from keys   *)
(* to roles.  Which of its roles a request is logged with is left out.     *)
(***************************************************************************)
EXTENDS Naturals, Sequences

CONSTANTS
    Entries,   \* the entries of API_KEYS, in order: a key and role names
    NoKey      \* the empty string, or no key at all

(* VALID_ROLES.                                                            *)
Role == {"INGESTION_SOURCE", "VENUE_OPS_MANAGER", "GATE_STAFF",
         "TRANSIT_DISPATCHER", "AUDITOR"}

(* parseApiKeys: unknown roles are dropped, then entries without a key or  *)
(* a role; of several entries of one key the last one stands.              *)
Valid(i) == Entries[i].key # NoKey /\ Entries[i].roles \cap Role # {}
EntriesOf(key) == {i \in DOMAIN Entries : Valid(i) /\ Entries[i].key = key}

(* verifyApiKey; no roles stand for null.                                  *)
RolesOfAnyEntry(key) == UNION {Entries[i].roles \cap Role : i \in EntriesOf(key)}
VerifyApiKey(key) ==
    UNION {Entries[i].roles \cap Role :
           i \in {i \in EntriesOf(key) : \A k \in EntriesOf(key) : k <= i}}

Readers == {"VENUE_OPS_MANAGER", "GATE_STAFF", "TRANSIT_DISPATCHER", "AUDITOR"}
AllowedRoles ==
    [stream      |-> Readers,
     snapshot    |-> Readers,
     execute     |-> {"VENUE_OPS_MANAGER", "GATE_STAFF"},
     acknowledge |-> {"VENUE_OPS_MANAGER", "TRANSIT_DISPATCHER"}]

(* requireRole lets the request through; else it answers 401 or 403.       *)
Permitted(key, operation) == VerifyApiKey(key) \cap AllowedRoles[operation] # {}
=============================================================================
