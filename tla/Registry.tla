------------------------------ MODULE Registry ------------------------------
(***************************************************************************)
(* POST /services/{id}/contracts (apps/api/routes/services.py) for one     *)
(* service on PostgreSQL. Uploads run in a thread pool, so any number of   *)
(* them overlap; each is one transaction on tables with two unique keys:   *)
(* a contract's name, and the hash of a version's canonical text.          *)
(***************************************************************************)
EXTENDS Naturals

CONSTANTS
  Uploads,   \* uploads that may be in progress at once
  Names,     \* contract names
  Docs,      \* canonical texts; the version hash tells them apart
  Kinds,     \* "openapi" and "proto"
  KindOf,    \* the kind of each of Docs
  None,      \* no row, or no specification
  MaxClock   \* bound on flushed versions

ASSUME RegistryAssumption ==
  /\ KindOf \in [Docs -> Kinds]
  /\ None \notin Kinds \cup Docs \cup [contract : Names, at : Nat]
  /\ MaxClock \in Nat

VARIABLES
  contracts,   \* contracts: the kind of each name
  versions,    \* contract_versions: contract and created_at of each text
  upload,      \* what each upload holds
  clock        \* the last created_at that was given

registry == <<contracts, versions, upload, clock>>

Stored(doc) == versions[doc] # None

\* The version that was flushed last. No two share a time.
IsLatest(doc, kind) ==
  /\ Stored(doc)
  /\ KindOf[doc] = kind
  /\ \A other \in Docs :
       Stored(other) /\ KindOf[other] = kind => versions[other].at <= versions[doc].at

IdleUpload == [pc |-> "idle"]
OpenUploads ==
  [pc : {"version", "contract", "insert"}, name : Names, doc : Docs]
    \cup [pc : {"commit"}, name : Names, doc : Docs, new : BOOLEAN]
    \cup [pc : {"flushed"}, name : Names, doc : Docs, new : BOOLEAN, at : Nat]

RegistryTypeOK ==
  /\ contracts \in [Names -> Kinds \cup {None}]
  /\ versions \in [Docs -> [contract : Names, at : Nat] \cup {None}]
  /\ upload \in [Uploads -> {IdleUpload} \cup OpenUploads]
  /\ clock \in Nat

RegistryInit ==
  /\ contracts = [name \in Names |-> None]
  /\ versions = [doc \in Docs |-> None]
  /\ upload = [u \in Uploads |-> IdleUpload]
  /\ clock = 0

Respond(u) == upload' = [upload EXCEPT ![u] = IdleUpload]

\* The INSERT of the contract is flushed; until its end the transaction keeps
\* others waiting for the name.
Holds(u, name) ==
  /\ upload[u].pc \in {"commit", "flushed"}
  /\ upload[u].name = name
  /\ upload[u].new

\* Likewise for the text of a version.
Inserts(u, doc) ==
  /\ upload[u].pc = "flushed"
  /\ upload[u].doc = doc

-----------------------------------------------------------------------------
BeginUpload(u, name, doc) ==
  /\ upload[u].pc = "idle"
  /\ upload' = [upload EXCEPT ![u] = [pc |-> "version", name |-> name, doc |-> doc]]
  /\ UNCHANGED <<contracts, versions, clock>>

\* A text that is stored, under whatever name, is answered with its version.
FindVersion(u) ==
  /\ upload[u].pc = "version"
  /\ IF Stored(upload[u].doc)
     THEN Respond(u)
     ELSE upload' = [upload EXCEPT ![u].pc = "contract"]
  /\ UNCHANGED <<contracts, versions, clock>>

\* A plausible slip: the kind of the contract found is not compared.
FindContractAnyKind(u) ==
  /\ upload[u].pc = "contract"
  /\ LET found == contracts[upload[u].name]
         name  == upload[u].name
         doc   == upload[u].doc
     IN upload' = [upload EXCEPT ![u] =
          IF found = None
          THEN [pc |-> "insert", name |-> name, doc |-> doc]
          ELSE [pc |-> "commit", name |-> name, doc |-> doc, new |-> FALSE]]
  /\ UNCHANGED <<contracts, versions, clock>>

FindContract(u) ==
  /\ upload[u].pc = "contract"
  /\ LET found == contracts[upload[u].name]
         name  == upload[u].name
         doc   == upload[u].doc
     IN upload' = [upload EXCEPT ![u] =
          CASE found = None        -> [pc |-> "insert", name |-> name, doc |-> doc]
            [] found = KindOf[doc] -> [pc |-> "commit", name |-> name, doc |-> doc,
                                       new |-> FALSE]
            [] OTHER               -> IdleUpload]   \* 409
  /\ UNCHANGED <<contracts, versions, clock>>

\* A plausible slip: the new contract is committed, not flushed.
InsertContractCommitted(u) ==
  /\ upload[u].pc = "insert"
  /\ \A other \in Uploads : ~Holds(other, upload[u].name)
  /\ IF contracts[upload[u].name] # None
     THEN /\ Respond(u)
          /\ UNCHANGED contracts
     ELSE /\ upload' = [upload EXCEPT ![u] =
               [pc |-> "commit", name |-> @.name, doc |-> @.doc, new |-> FALSE]]
          /\ contracts' = [contracts EXCEPT ![upload[u].name] = KindOf[upload[u].doc]]
  /\ UNCHANGED <<versions, clock>>

\* The flush waits for a transaction that holds the name. If that one was
\* committed the key is violated, and no handler catches it here: a 500.
InsertContract(u) ==
  /\ upload[u].pc = "insert"
  /\ \A other \in Uploads : ~Holds(other, upload[u].name)
  /\ IF contracts[upload[u].name] # None
     THEN Respond(u)
     ELSE upload' = [upload EXCEPT ![u] =
            [pc |-> "commit", name |-> @.name, doc |-> @.doc, new |-> TRUE]]
  /\ UNCHANGED <<contracts, versions, clock>>

\* The version is inserted; created_at is the time of this flush. It waits for
\* a transaction that inserts the same text; if one was committed the key is
\* violated and all is rolled back (409).
FlushVersion(u) ==
  /\ upload[u].pc = "commit"
  /\ \A other \in Uploads : ~Inserts(other, upload[u].doc)
  /\ clock < MaxClock
  /\ IF Stored(upload[u].doc)
     THEN Respond(u) /\ UNCHANGED clock
     ELSE /\ clock' = clock + 1
          /\ upload' = [upload EXCEPT ![u] =
               [pc |-> "flushed", name |-> @.name, doc |-> @.doc, new |-> @.new,
                at |-> clock + 1]]
  /\ UNCHANGED <<contracts, versions>>

CommitUpload(u) ==
  /\ upload[u].pc = "flushed"
  /\ LET name == upload[u].name
         doc  == upload[u].doc
     IN /\ contracts' = [contracts EXCEPT ![name] = IF upload[u].new THEN KindOf[doc] ELSE @]
        /\ versions' = [versions EXCEPT ![doc] = [contract |-> name, at |-> upload[u].at]]
  /\ Respond(u)
  /\ UNCHANGED clock

\* A crash or a database error: the session is closed and rolled back.
LoseUpload(u) ==
  /\ upload[u].pc # "idle"
  /\ Respond(u)
  /\ UNCHANGED <<contracts, versions, clock>>

RegistryNext ==
  \E u \in Uploads :
    \/ \E name \in Names, doc \in Docs : BeginUpload(u, name, doc)
    \/ FindVersion(u)
    \/ FindContract(u)
    \/ InsertContract(u)
    \/ FlushVersion(u)
    \/ CommitUpload(u)
    \/ LoseUpload(u)

RegistrySpec == RegistryInit /\ [][RegistryNext]_registry

-----------------------------------------------------------------------------
\* Whatever uploads race, every contract has a version of its own kind: one
\* lost half-way leaves no empty contract, and two that create one name with
\* different kinds do not mix (services.py:162-188).
ContractsAreBacked ==
  \A name \in Names :
    LET own == {doc \in Docs : Stored(doc) /\ versions[doc].contract = name}
    IN /\ contracts[name] # None <=> own # {}
       /\ \A doc \in own : contracts[name] = KindOf[doc]

\* A stored version stays in its contract and keeps its time, whatever text is
\* uploaded again under whatever name, so which version is the latest never
\* goes back; the loser of a race writes nothing (services.py:137-160, 186-194).
VersionsAreKept ==
  [][\A doc \in Docs : Stored(doc) => versions'[doc] = versions[doc]]_registry
=============================================================================
