--------------------------- MODULE RegistryProofs ---------------------------
(***************************************************************************)
(* Theorems about Registry, for any number of uploads, names, texts and    *)
(* kinds.                                                                  *)
(***************************************************************************)
EXTENDS Registry, TLAPS

Decided(u) == upload[u].pc \in {"commit", "flushed"}

\* What an upload found is still so when it writes, and what it holds is its own.
UploadsAgree ==
  /\ \A u \in Uploads : Decided(u) =>
       contracts[upload[u].name] = IF upload[u].new THEN None ELSE KindOf[upload[u].doc]
  /\ \A u \in Uploads, v \in Uploads, name \in Names :
       Holds(u, name) /\ Holds(v, name) => u = v
  /\ \A u \in Uploads : upload[u].pc = "flushed" => ~Stored(upload[u].doc)
  /\ \A u \in Uploads, v \in Uploads, doc \in Docs :
       Inserts(u, doc) /\ Inserts(v, doc) => u = v

RegistryInv == RegistryTypeOK /\ ContractsAreBacked /\ UploadsAgree

LEMMA InitRegistryInv == RegistryInit => RegistryInv
BY RegistryAssumption
   DEF RegistryInit, RegistryInv, RegistryTypeOK, ContractsAreBacked, UploadsAgree,
       Decided, Holds, Inserts, Stored, IdleUpload

\* An upload goes on, and no committed row changes.
LEMMA UploadGoesOn ==
  ASSUME RegistryInv, NEW u \in Uploads, NEW r \in {IdleUpload} \cup OpenUploads,
         upload' = [upload EXCEPT ![u] = r],
         contracts' = contracts, versions' = versions, clock' \in Nat,
         r.pc \in {"commit", "flushed"} =>
           /\ contracts[r.name] = IF r.new THEN None ELSE KindOf[r.doc]
           /\ r.new => \A v \in Uploads \ {u} : ~Holds(v, r.name),
         r.pc = "flushed" =>
           ~Stored(r.doc) /\ \A v \in Uploads \ {u} : ~Inserts(v, r.doc)
  PROVE  RegistryInv'
<1> USE DEF RegistryInv
<1>1. /\ upload'[u] = r
      /\ \A v \in Uploads \ {u} : upload'[v] = upload[v]
  BY DEF RegistryTypeOK
<1>2. RegistryTypeOK'
  BY DEF RegistryTypeOK
<1>3. ContractsAreBacked'
  BY DEF ContractsAreBacked, Stored
<1>4. \A v \in Uploads : Decided(v)' =>
        contracts'[upload'[v].name] = IF upload'[v].new THEN None ELSE KindOf[upload'[v].doc]
  BY <1>1 DEF UploadsAgree, Decided
<1>5. ASSUME NEW v \in Uploads, NEW w \in Uploads, NEW name \in Names,
             Holds(v, name)', Holds(w, name)'
      PROVE  v = w
  <2>1. \A x \in Uploads \ {u} : Holds(x, name)' => Holds(x, name)
    BY <1>1 DEF Holds
  <2>2. Holds(u, name)' => \A x \in Uploads \ {u} : ~Holds(x, name)
    BY <1>1 DEF Holds
  <2> QED
    BY <1>5, <2>1, <2>2 DEF UploadsAgree
<1>6. \A v \in Uploads : upload'[v].pc = "flushed" => versions'[upload'[v].doc] = None
  BY <1>1 DEF UploadsAgree, Stored
<1>7. ASSUME NEW v \in Uploads, NEW w \in Uploads, NEW doc \in Docs,
             Inserts(v, doc)', Inserts(w, doc)'
      PROVE  v = w
  <2>1. \A x \in Uploads \ {u} : Inserts(x, doc)' => Inserts(x, doc)
    BY <1>1 DEF Inserts
  <2>2. Inserts(u, doc)' => \A x \in Uploads \ {u} : ~Inserts(x, doc)
    BY <1>1 DEF Inserts
  <2> QED
    BY <1>7, <2>1, <2>2 DEF UploadsAgree
<1> QED
  BY <1>2, <1>3, <1>4, <1>5, <1>6, <1>7 DEF UploadsAgree, Stored

LEMMA OpenStepKeepsInv ==
  ASSUME RegistryInv, NEW u \in Uploads,
         \/ \E name \in Names, doc \in Docs : BeginUpload(u, name, doc)
         \/ FindVersion(u)
         \/ FindContract(u)
         \/ InsertContract(u)
         \/ FlushVersion(u)
         \/ LoseUpload(u)
  PROVE  RegistryInv'
<1> DEFINE q == upload[u]
           name == q.name
           doc == q.doc
<1>1. RegistryTypeOK /\ UploadsAgree
  BY DEF RegistryInv
<1>2. CASE \E n \in Names, d \in Docs : BeginUpload(u, n, d)
  <2> PICK n \in Names, d \in Docs : BeginUpload(u, n, d)
    BY <1>2
  <2> DEFINE r == [pc |-> "version", name |-> n, doc |-> d]
  <2>1. r \in OpenUploads /\ upload' = [upload EXCEPT ![u] = r]
    BY DEF BeginUpload, OpenUploads
  <2> QED
    BY <1>1, <2>1, UploadGoesOn DEF BeginUpload, RegistryTypeOK
<1>3. CASE FindVersion(u)
  <2> DEFINE r == IF Stored(doc) THEN IdleUpload ELSE [q EXCEPT !.pc = "contract"]
  <2>1. /\ r \in {IdleUpload} \cup OpenUploads
        /\ r.pc \notin {"commit", "flushed"}
        /\ upload' = [upload EXCEPT ![u] = r]
    BY <1>1, <1>3 DEF FindVersion, Respond, RegistryTypeOK, OpenUploads, IdleUpload
  <2> QED
    BY <1>1, <1>3, <2>1, UploadGoesOn DEF FindVersion, RegistryTypeOK
<1>4. CASE FindContract(u)
  <2> DEFINE found == contracts[name]
             r == CASE found = None        -> [pc |-> "insert", name |-> name, doc |-> doc]
                    [] found = KindOf[doc] -> [pc |-> "commit", name |-> name, doc |-> doc,
                                               new |-> FALSE]
                    [] OTHER               -> IdleUpload
  <2>1. q \in OpenUploads /\ name \in Names /\ doc \in Docs
    BY <1>1, <1>4 DEF FindContract, RegistryTypeOK, OpenUploads, IdleUpload
  <2>2. KindOf[doc] # None
    BY <2>1, RegistryAssumption
  <2>3. /\ r \in {IdleUpload} \cup OpenUploads
        /\ r.pc = "commit" => r.name = name /\ r.doc = doc /\ r.new = FALSE
                              /\ contracts[name] = KindOf[doc]
        /\ r.pc # "flushed"
    BY <2>1, <2>2 DEF OpenUploads, IdleUpload
  <2>4. upload' = [upload EXCEPT ![u] = r]
    BY <1>4 DEF FindContract
  <2>5. contracts' = contracts /\ versions' = versions /\ clock' \in Nat
    BY <1>1, <1>4 DEF FindContract, RegistryTypeOK
  <2>6. r.pc \in {"commit", "flushed"} =>
          /\ contracts[r.name] = IF r.new THEN None ELSE KindOf[r.doc]
          /\ r.new => \A v \in Uploads \ {u} : ~Holds(v, r.name)
    <3> HIDE DEF r
    <3> QED
      BY <2>3
  <2> HIDE DEF r
  <2> QED
    BY <2>3, <2>4, <2>5, <2>6, UploadGoesOn
<1>5. CASE InsertContract(u)
  <2> DEFINE r == IF contracts[name] # None THEN IdleUpload
                  ELSE [pc |-> "commit", name |-> name, doc |-> doc, new |-> TRUE]
  <2>1. q \in OpenUploads /\ name \in Names /\ doc \in Docs
    BY <1>1, <1>5 DEF InsertContract, RegistryTypeOK, OpenUploads, IdleUpload
  <2>2. /\ r \in {IdleUpload} \cup OpenUploads
        /\ r.pc = "commit" => r.name = name /\ r.new = TRUE /\ contracts[name] = None
        /\ r.pc # "flushed"
    BY <2>1 DEF OpenUploads, IdleUpload
  <2>3. upload' = [upload EXCEPT ![u] = r]
    BY <1>5 DEF InsertContract, Respond
  <2>4. \A v \in Uploads : ~Holds(v, name)
    BY <1>5 DEF InsertContract
  <2> HIDE DEF r
  <2> QED
    BY <1>1, <1>5, <2>2, <2>3, <2>4, UploadGoesOn DEF InsertContract, RegistryTypeOK
<1>6. CASE FlushVersion(u)
  <2> DEFINE r == IF Stored(doc) THEN IdleUpload
                  ELSE [pc |-> "flushed", name |-> name, doc |-> doc, new |-> q.new,
                        at |-> clock + 1]
  <2>1. /\ q \in OpenUploads /\ q.pc = "commit" /\ name \in Names /\ doc \in Docs
        /\ q.new \in BOOLEAN /\ clock \in Nat
    BY <1>1, <1>6 DEF FlushVersion, RegistryTypeOK, OpenUploads, IdleUpload
  <2>2. /\ r \in {IdleUpload} \cup OpenUploads
        /\ r.pc = "flushed" => r.name = name /\ r.doc = doc /\ r.new = q.new /\ ~Stored(doc)
        /\ r.pc # "commit"
    BY <2>1 DEF OpenUploads, IdleUpload
  <2>3. upload' = [upload EXCEPT ![u] = r] /\ clock' \in Nat
    BY <1>6, <2>1 DEF FlushVersion, Respond
  <2>4. /\ contracts[name] = IF q.new THEN None ELSE KindOf[doc]
        /\ q.new => \A v \in Uploads \ {u} : ~Holds(v, name)
    BY <1>1, <2>1 DEF UploadsAgree, Decided, Holds
  <2>5. \A v \in Uploads : ~Inserts(v, doc)
    BY <1>6 DEF FlushVersion
  <2> HIDE DEF r
  <2> QED
    BY <1>6, <2>2, <2>3, <2>4, <2>5, UploadGoesOn DEF FlushVersion
<1>7. CASE LoseUpload(u)
  BY <1>1, <1>7, UploadGoesOn DEF LoseUpload, Respond, IdleUpload, RegistryTypeOK
<1> QED
  BY <1>2, <1>3, <1>4, <1>5, <1>6, <1>7

LEMMA CommitKeepsInv ==
  ASSUME RegistryInv, NEW u \in Uploads, CommitUpload(u)
  PROVE  RegistryInv'
<1> USE RegistryAssumption DEF RegistryInv
<1> DEFINE name == upload[u].name
           doc == upload[u].doc
<1>1. /\ RegistryTypeOK /\ UploadsAgree
      /\ upload[u].pc = "flushed" /\ name \in Names /\ doc \in Docs
      /\ upload[u].new \in BOOLEAN /\ upload[u].at \in Nat
  BY DEF CommitUpload, RegistryTypeOK, OpenUploads, IdleUpload
<1>2. ~upload[u].new => contracts[name] = KindOf[doc]
  BY <1>1 DEF UploadsAgree, Decided
<1>3. /\ contracts' = [contracts EXCEPT ![name] = KindOf[doc]]
      /\ versions' = [versions EXCEPT ![doc] = [contract |-> name, at |-> upload[u].at]]
      /\ upload' = [upload EXCEPT ![u] = IdleUpload]
      /\ clock' = clock
  BY <1>1, <1>2 DEF CommitUpload, Respond, RegistryTypeOK
<1>4. RegistryTypeOK'
  BY <1>1, <1>3 DEF RegistryTypeOK
<1>5. ContractsAreBacked'
  <2>1. \A other \in Docs \ {doc} : versions'[other] = versions[other]
    BY <1>1, <1>3 DEF RegistryTypeOK
  <2>2. versions'[doc] # None /\ versions'[doc].contract = name
    BY <1>1, <1>3, RegistryAssumption DEF RegistryTypeOK
  <2>3. \A n \in Names \ {name} : contracts'[n] = contracts[n]
    BY <1>1, <1>3 DEF RegistryTypeOK
  <2>4. contracts'[name] = KindOf[doc] /\ KindOf[doc] # None
    BY <1>1, <1>3, RegistryAssumption DEF RegistryTypeOK
  <2>5. contracts[name] \in {None, KindOf[doc]}
    BY <1>1, <1>2 DEF UploadsAgree, Decided
  <2>6. versions[doc] = None
    BY <1>1 DEF UploadsAgree, Stored
  <2> SUFFICES ASSUME NEW n \in Names
               PROVE  /\ contracts'[n] # None <=>
                           \E d \in Docs : versions'[d] # None /\ versions'[d].contract = n
                      /\ \A d \in Docs : versions'[d] # None /\ versions'[d].contract = n =>
                           contracts'[n] = KindOf[d]
    BY DEF ContractsAreBacked, Stored
  <2>7. /\ contracts[n] # None <=>
             \E d \in Docs : versions[d] # None /\ versions[d].contract = n
        /\ \A d \in Docs : versions[d] # None /\ versions[d].contract = n =>
             contracts[n] = KindOf[d]
    BY DEF ContractsAreBacked, Stored
  <2>8. CASE n = name
    BY <1>1, <2>1, <2>2, <2>4, <2>5, <2>6, <2>7, <2>8
  <2>9. CASE n # name
    BY <1>1, <2>1, <2>2, <2>3, <2>6, <2>7, <2>9
  <2> QED
    BY <2>8, <2>9
<1>6. UploadsAgree'
  <2>1. /\ upload'[u].pc = "idle"
        /\ \A v \in Uploads \ {u} : upload'[v] = upload[v]
    BY <1>1, <1>3 DEF RegistryTypeOK, IdleUpload
  <2>2. \A v \in Uploads, n \in Names : Holds(v, n)' => v # u /\ Holds(v, n)
    BY <2>1 DEF Holds
  <2>3. \A v \in Uploads, d \in Docs : Inserts(v, d)' => v # u /\ Inserts(v, d)
    BY <2>1 DEF Inserts
  <2>4. ASSUME NEW v \in Uploads, Decided(v)'
        PROVE  contracts'[upload'[v].name] =
                 IF upload'[v].new THEN None ELSE KindOf[upload'[v].doc]
    <3>1. v # u /\ upload'[v] = upload[v] /\ Decided(v)
      BY <2>1, <2>4 DEF Decided
    <3>2. upload[v].name \in Names /\ upload[v].new \in BOOLEAN /\ upload[v].doc \in Docs
      BY <1>1, <3>1 DEF Decided, RegistryTypeOK, OpenUploads, IdleUpload
    <3>3. contracts[upload[v].name] = IF upload[v].new THEN None ELSE KindOf[upload[v].doc]
      BY <1>1, <3>1 DEF UploadsAgree
    <3>4. CASE upload[v].name # name
      BY <1>1, <1>3, <3>1, <3>2, <3>3, <3>4 DEF RegistryTypeOK
    <3>5. CASE upload[v].name = name /\ upload[u].new
      <4>1. Holds(u, name)
        BY <1>1, <3>5 DEF Holds
      <4>2. contracts[name] = None
        BY <1>1, <3>5 DEF UploadsAgree, Decided
      <4>3. ~Holds(v, name)
        BY <1>1, <3>1, <4>1 DEF UploadsAgree
      <4>4. ~upload[v].new
        BY <3>1, <3>5, <4>3 DEF Holds, Decided
      <4> QED
        BY <3>2, <3>3, <3>5, <4>2, <4>4, RegistryAssumption
    <3>6. CASE upload[v].name = name /\ ~upload[u].new
      <4>1. contracts'[name] = contracts[name]
        BY <1>1, <1>2, <1>3, <3>6 DEF RegistryTypeOK
      <4> QED
        BY <3>1, <3>3, <3>6, <4>1
    <3> QED
      BY <1>1, <3>4, <3>5, <3>6
  <2>5. ASSUME NEW v \in Uploads, upload'[v].pc = "flushed"
        PROVE  versions'[upload'[v].doc] = None
    <3>1. v # u /\ upload'[v] = upload[v]
      BY <2>1, <2>5
    <3>2. upload[v].doc \in Docs
      BY <1>1, <2>5, <3>1 DEF RegistryTypeOK, OpenUploads, IdleUpload
    <3>3. Inserts(u, doc) /\ Inserts(v, upload[v].doc)
      BY <1>1, <2>5, <3>1 DEF Inserts
    <3>4. upload[v].doc # doc
      BY <1>1, <3>1, <3>3 DEF UploadsAgree
    <3>5. ~Stored(upload[v].doc)
      BY <1>1, <2>5, <3>1 DEF UploadsAgree
    <3> QED
      BY <1>1, <1>3, <3>1, <3>2, <3>4, <3>5 DEF Stored, RegistryTypeOK
  <2> QED
    BY <1>1, <2>2, <2>3, <2>4, <2>5 DEF UploadsAgree, Stored
<1> QED
  BY <1>4, <1>5, <1>6

LEMMA RegistryInvariant == RegistrySpec => []RegistryInv
<1>1. RegistryInv /\ [RegistryNext]_registry => RegistryInv'
  <2> SUFFICES ASSUME RegistryInv, [RegistryNext]_registry
               PROVE  RegistryInv'
    OBVIOUS
  <2>1. CASE UNCHANGED registry
    BY <2>1 DEF registry, RegistryInv, RegistryTypeOK, ContractsAreBacked, UploadsAgree,
       Decided, Holds, Inserts, Stored
  <2>2. CASE RegistryNext
    BY <2>2, OpenStepKeepsInv, CommitKeepsInv DEF RegistryNext
  <2> QED
    BY <2>1, <2>2
<1> QED
  BY <1>1, InitRegistryInv, PTL DEF RegistrySpec

-----------------------------------------------------------------------------
\* Every reachable state of the registry is type correct.
THEOREM RegistryIsTyped == RegistrySpec => []RegistryTypeOK
<1>1. RegistryInv => RegistryTypeOK
  BY DEF RegistryInv
<1> QED
  BY <1>1, RegistryInvariant, PTL

\* However many uploads race or fail, no contract is left without a version,
\* and none has a version of another kind.
THEOREM ContractsStayBacked == RegistrySpec => []ContractsAreBacked
<1>1. RegistryInv => ContractsAreBacked
  BY DEF RegistryInv
<1> QED
  BY <1>1, RegistryInvariant, PTL

\* No upload rewrites a stored version.
THEOREM VersionsStay == RegistrySpec => VersionsAreKept
<1>1. RegistryInv /\ [RegistryNext]_registry =>
        [\A doc \in Docs : Stored(doc) => versions'[doc] = versions[doc]]_registry
  <2> SUFFICES ASSUME RegistryInv, RegistryNext, NEW doc \in Docs, Stored(doc)
               PROVE  versions'[doc] = versions[doc]
    OBVIOUS
  <2> PICK u \in Uploads :
        \/ \E name \in Names, text \in Docs : BeginUpload(u, name, text)
        \/ FindVersion(u) \/ FindContract(u) \/ InsertContract(u)
        \/ FlushVersion(u) \/ CommitUpload(u) \/ LoseUpload(u)
    BY DEF RegistryNext
  <2>1. CASE CommitUpload(u)
    <3>1. upload[u].doc # doc
      BY <2>1 DEF CommitUpload, RegistryInv, UploadsAgree
    <3> QED
      BY <2>1, <3>1 DEF CommitUpload, RegistryInv, RegistryTypeOK
  <2>2. CASE ~CommitUpload(u)
    BY <2>2 DEF BeginUpload, FindVersion, FindContract, InsertContract, FlushVersion, LoseUpload
  <2> QED
    BY <2>1, <2>2
<1> QED
  BY <1>1, RegistryInvariant, PTL DEF RegistrySpec, VersionsAreKept
=============================================================================
