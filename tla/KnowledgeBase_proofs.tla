------------------------ MODULE KnowledgeBase_proofs --------------------------
(***************************************************************************)
(* What an administrator may rely on in the knowledge base, for every       *)
(* number of documents and requests in progress: a reindex that nobody       *)
(* cleared behind its back ends with a row for every text, and the texts a   *)
(* content is cut into fit and hold every character of it once and in order. *)
(***************************************************************************)
EXTENDS BackOffice, TLAPS, WellFoundedInduction

(* A request that has its document to itself meets nobody there.             *)
AloneAtIt ==
    \A q, o \in Requests :
      Busy(q) /\ Busy(o) /\ q # o /\ work[q].alone => work[o].doc # work[q].doc

(* A request names a document that was written once; it counts the texts    *)
(* from none to all.                                                         *)
RequestsInOrder ==
    \A q \in Requests :
      /\ Busy(q) => work[q].doc \in Docs /\ docs[work[q].doc] # Unborn
      /\ work[q].at = "clear" => work[q].next = 0
      /\ work[q].at = "indexed" => work[q].next = Len(Split(work[q].content))

(* The texts the request has written so far are there; if it is alone,       *)
(* nothing else is.                                                          *)
WrittenSoFar(q) ==
    /\ \A n \in 1..work[q].next : Holds(work[q].doc, n - 1, Split(work[q].content)[n])
    /\ work[q].alone =>
         /\ \A i \in RowsOf(work[q].doc) : chunks[i].index < work[q].next
         /\ \A i, j \in RowsOf(work[q].doc) : chunks[i].index = chunks[j].index => i = j

Writes(q) == /\ work[q].at \in {"write", "indexed"}
             /\ work[q].intact /\ Exists(work[q].doc)

TextsAreThere == \A q \in Requests : Writes(q) => WrittenSoFar(q)

(* The foreign key: a row has its document.                                  *)
ChunksHaveADocument == \A i \in DOMAIN chunks : Exists(chunks[i].doc)

KnowledgeInv ==
    /\ KnowledgeTypeOK /\ ChunksHaveADocument /\ AloneAtIt /\ RequestsInOrder /\ TextsAreThere

-----------------------------------------------------------------------------
(* Initially there is no document, no row and no request.                    *)
LEMMA KnowledgeStarts == KnowledgeInit => KnowledgeInv
<1> SUFFICES ASSUME KnowledgeInit PROVE KnowledgeInv
  OBVIOUS
<1>1. DOMAIN chunks = {}
  BY DEF KnowledgeInit
<1>2. KnowledgeTypeOK
  BY <1>1 DEF KnowledgeInit, KnowledgeTypeOK, NoWork, Work
<1>3. ChunksHaveADocument
  BY <1>1 DEF ChunksHaveADocument
<1>4. AloneAtIt /\ RequestsInOrder /\ TextsAreThere
  BY DEF KnowledgeInit, AloneAtIt, RequestsInOrder, TextsAreThere, Writes, Busy, NoWork
<1>5. QED
  BY <1>2, <1>3, <1>4 DEF KnowledgeInv

-----------------------------------------------------------------------------
(* The rows of a document are kept, and no other is added to them.           *)
RowsStay(d) == /\ {i \in DOMAIN chunks' : chunks'[i].doc = d} = RowsOf(d)
               /\ \A i \in RowsOf(d) : chunks'[i] = chunks[i]

(* deleteMany removes the rows of its document and no other.                 *)
LEMMA OthersStay ==
  ASSUME NEW d, chunks' = Others(d)
  PROVE  /\ \A i \in DOMAIN chunks' : chunks'[i].doc # d
         /\ DOMAIN chunks' = DOMAIN chunks \ RowsOf(d)
         /\ \A i \in DOMAIN chunks' : chunks'[i] = chunks[i]
         /\ \A e : e # d => RowsStay(e)
<1>1. chunks' = [i \in DOMAIN chunks \ RowsOf(d) |-> chunks[i]]
  BY DEF Others, Restrict
<1>2. QED
  BY <1>1 DEF RowsOf, RowsStay

(* create adds one row, to its document.                                     *)
LEMMA RowIsAdded ==
  ASSUME KnowledgeTypeOK, NEW q \in Requests, WriteChunk(q)
  PROVE  \E id \in 1..MaxChunks \ DOMAIN chunks :
           /\ DOMAIN chunks' = DOMAIN chunks \cup {id}
           /\ chunks'[id] = [doc |-> work[q].doc, index |-> work[q].next,
                             text |-> Split(work[q].content)[work[q].next + 1]]
           /\ \A i \in DOMAIN chunks : chunks'[i] = chunks[i]
<1> DEFINE id == CHOOSE i \in FreeIds : TRUE
<1>1. id \in 1..MaxChunks \ DOMAIN chunks
  BY DEF WriteChunk, FreeIds
<1>2. chunks' = [i \in DOMAIN chunks \cup {id} |->
        IF i = id THEN [doc |-> work[q].doc, index |-> work[q].next,
                        text |-> Split(work[q].content)[work[q].next + 1]]
        ELSE chunks[i]]
  BY DEF WriteChunk
<1> HIDE DEF id
<1>3. QED
  BY <1>1, <1>2

-----------------------------------------------------------------------------
(* Types.                                                                    *)
LEMMA KnowledgeTypes ==
  KnowledgeTypeOK /\ RequestsInOrder /\ [KnowledgeNext]_knowledgeVars => KnowledgeTypeOK'
<1> SUFFICES ASSUME KnowledgeTypeOK, RequestsInOrder, [KnowledgeNext]_knowledgeVars
             PROVE  KnowledgeTypeOK'
  OBVIOUS
<1> USE KnowledgeAssumption
<1>a. NoWork \in Work
  BY DEF NoWork, Work
<1>b. work \in [Requests -> Work]
  BY DEF KnowledgeTypeOK
<1>1. CASE WriteDocument
  BY <1>1 DEF WriteDocument, KnowledgeTypeOK
<1>2. ASSUME NEW q \in Requests, NEW d \in Docs, StartReindex(q, d) \/ StartDelete(q, d)
      PROVE  KnowledgeTypeOK'
  <2>1. PICK first \in {"clear", "unindex"}, content \in Contents \cup {<<>>} :
          BeginRequest(q, d, first, content)
    BY <1>2 DEF StartReindex, StartDelete, BeginRequest, Exists, KnowledgeTypeOK
  <2>2. \A p \in Requests : work'[p] \in Work
    <3> SUFFICES ASSUME NEW p \in Requests PROVE work'[p] \in Work
      OBVIOUS
    <3>1. CASE p = q
      <4> DEFINE free == \A o \in Requests : ~(Busy(o) /\ work[o].doc = d)
      <4>1. free \in BOOLEAN
        OBVIOUS
      <4>2. work'[p] = [at |-> first, doc |-> d, content |-> content, next |-> 0,
                        alone |-> free, intact |-> TRUE]
        BY <2>1, <3>1 DEF BeginRequest, NoWork
      <4> HIDE DEF free
      <4>3. QED
        BY <4>1, <4>2 DEF Work
    <3>2. CASE p # q
      <4>1. work'[p] = [work[p] EXCEPT !.alone = work[p].alone /\ work[p].doc # d]
        BY <2>1, <3>2 DEF BeginRequest
      <4>2. QED
        BY <4>1, <1>b DEF Work
    <3>3. QED BY <3>1, <3>2
  <2>3. work' \in [Requests -> Work]
    BY <2>1, <2>2 DEF BeginRequest
  <2>4. QED
    BY <2>1, <2>3 DEF BeginRequest, KnowledgeTypeOK
<1>3. ASSUME NEW q \in Requests, ClearChunks(q) PROVE KnowledgeTypeOK'
  <2>1. \A p \in Requests : work'[p] \in Work
    <3> SUFFICES ASSUME NEW p \in Requests PROVE work'[p] \in Work
      OBVIOUS
    <3>1. CASE p = q
      <4>1. PICK at \in {"write", "remove"} :
              work'[p] = [work[p] EXCEPT !.at = at, !.intact = TRUE]
        BY <1>3, <3>1 DEF ClearChunks
      <4>2. QED
        BY <4>1, <1>b DEF Work
    <3>2. CASE p # q
      <4>1. work'[p] = [work[p] EXCEPT !.intact = work[p].intact /\ work[p].doc # work[q].doc]
        BY <1>3, <3>2 DEF ClearChunks
      <4>2. QED
        BY <4>1, <1>b DEF Work
    <3>3. QED BY <3>1, <3>2
  <2>2. work' \in [Requests -> Work]
    BY <1>3, <2>1 DEF ClearChunks
  <2>3. chunks' = Others(work[q].doc) /\ docs' = docs
    BY <1>3 DEF ClearChunks
  <2>4. QED
    BY <2>2, <2>3, OthersStay DEF KnowledgeTypeOK
<1>4. ASSUME NEW q \in Requests, WriteChunk(q) PROVE KnowledgeTypeOK'
  <2>1. work[q].doc \in Docs /\ work[q].next \in Nat
    BY <1>4, <1>b DEF WriteChunk, RequestsInOrder, Busy, Work
  <2>2. PICK id \in 1..MaxChunks \ DOMAIN chunks :
          /\ DOMAIN chunks' = DOMAIN chunks \cup {id}
          /\ chunks'[id] = [doc |-> work[q].doc, index |-> work[q].next,
                            text |-> Split(work[q].content)[work[q].next + 1]]
          /\ \A i \in DOMAIN chunks : chunks'[i] = chunks[i]
    BY <1>4, RowIsAdded
  <2>3. chunks'[id].doc \in Docs /\ chunks'[id].index \in Nat
    BY <2>1, <2>2
  <2>4. DOMAIN chunks' \subseteq 1..MaxChunks
        /\ \A i \in DOMAIN chunks' : chunks'[i].doc \in Docs /\ chunks'[i].index \in Nat
    BY <2>2, <2>3 DEF KnowledgeTypeOK
  <2>5. work' \in [Requests -> Work]
    BY <1>4, <1>b DEF WriteChunk, Work
  <2>6. QED
    BY <1>4, <2>4, <2>5 DEF WriteChunk, KnowledgeTypeOK
<1>5. ASSUME NEW q \in Requests, FinishReindex(q) PROVE KnowledgeTypeOK'
  <2>1. work' \in [Requests -> Work]
    BY <1>5, <1>b DEF FinishReindex, Work
  <2>2. QED
    BY <1>5, <2>1 DEF FinishReindex, KnowledgeTypeOK
<1>6. ASSUME NEW q \in Requests, RequestEnds(q) PROVE KnowledgeTypeOK'
  BY <1>6, <1>a DEF RequestEnds, KnowledgeTypeOK
<1>7. ASSUME NEW q \in Requests, RemoveDocument(q) PROVE KnowledgeTypeOK'
  <2>1. work' \in [Requests -> Work] /\ docs' \in [Docs -> Contents \cup {Unborn, Deleted}]
    BY <1>7, <1>a DEF RemoveDocument, KnowledgeTypeOK
  <2>2. chunks' = Others(work[q].doc)
    BY <1>7 DEF RemoveDocument, Cascade
  <2>3. QED
    BY <2>1, <2>2, OthersStay DEF KnowledgeTypeOK
<1>8. CASE UNCHANGED knowledgeVars
  BY <1>8 DEF knowledgeVars, KnowledgeTypeOK
<1>9. QED
  BY <1>1, <1>2, <1>3, <1>4, <1>5, <1>6, <1>7, <1>8 DEF KnowledgeNext

-----------------------------------------------------------------------------
(* What a step does to the requests, field by field.                         *)
SameWork(p) ==
    /\ work'[p].at = work[p].at /\ work'[p].doc = work[p].doc
    /\ work'[p].content = work[p].content /\ work'[p].next = work[p].next

Untouched(q) == \A p \in Requests \ {q} : work'[p] = work[p]

(* A request begins: it learns whether it is alone, the others that they    *)
(* are not.                                                                  *)
LEMMA Begins ==
  ASSUME KnowledgeTypeOK, NEW q \in Requests, NEW d \in Docs, StartReindex(q, d) \/ StartDelete(q, d)
  PROVE  /\ ~Busy(q) /\ Exists(d) /\ UNCHANGED <<docs, chunks>>
         /\ work'[q].at \in {"clear", "unindex"} /\ work'[q].doc = d /\ work'[q].next = 0
         /\ work'[q].alone => \A o \in Requests : ~(Busy(o) /\ work[o].doc = d)
         /\ \A p \in Requests \ {q} : /\ SameWork(p) /\ work'[p].intact = work[p].intact
                                      /\ work'[p].alone => work[p].alone /\ work[p].doc # d
<1>1. PICK first, content : first \in {"clear", "unindex"} /\ BeginRequest(q, d, first, content)
  BY DEF StartReindex, StartDelete
<1>2. work'[q] = [at |-> first, doc |-> d, content |-> content, next |-> 0,
                  alone |-> \A o \in Requests : ~(Busy(o) /\ work[o].doc = d), intact |-> TRUE]
  BY <1>1 DEF BeginRequest, NoWork
<1>3. ASSUME NEW p \in Requests \ {q}
      PROVE  /\ SameWork(p) /\ work'[p].intact = work[p].intact
             /\ work'[p].alone => work[p].alone /\ work[p].doc # d
  <2>1. work'[p] = [work[p] EXCEPT !.alone = work[p].alone /\ work[p].doc # d]
    BY <1>1 DEF BeginRequest
  <2>2. work[p] \in Work
    BY DEF KnowledgeTypeOK
  <2>3. QED
    BY <2>1, <2>2 DEF Work, SameWork
<1>4. QED
  BY <1>1, <1>2, <1>3 DEF BeginRequest

(* A request clears: its count starts, the others on the document learn it.  *)
LEMMA Clears ==
  ASSUME KnowledgeTypeOK, NEW q \in Requests, ClearChunks(q)
  PROVE  /\ work[q].at \in {"clear", "unindex"}
         /\ (work[q].at = "clear" /\ work'[q].at = "write") \/ work'[q].at = "remove"
         /\ work'[q].doc = work[q].doc /\ work'[q].content = work[q].content
         /\ work'[q].next = work[q].next /\ work'[q].alone = work[q].alone
         /\ docs' = docs /\ chunks' = Others(work[q].doc)
         /\ \A p \in Requests \ {q} :
              /\ SameWork(p) /\ work'[p].alone = work[p].alone
              /\ work'[p].intact => work[p].intact /\ work[p].doc # work[q].doc
<1>1. PICK at \in {"write", "remove"} :
        /\ work'[q] = [work[q] EXCEPT !.at = at, !.intact = TRUE]
        /\ at = "write" => work[q].at = "clear"
  BY DEF ClearChunks
<1>2. work[q] \in Work
  BY DEF KnowledgeTypeOK
<1>3. ASSUME NEW p \in Requests \ {q}
      PROVE  /\ SameWork(p) /\ work'[p].alone = work[p].alone
             /\ work'[p].intact => work[p].intact /\ work[p].doc # work[q].doc
  <2>1. work'[p] = [work[p] EXCEPT !.intact = work[p].intact /\ work[p].doc # work[q].doc]
    BY DEF ClearChunks
  <2>2. work[p] \in Work
    BY DEF KnowledgeTypeOK
  <2>3. QED
    BY <2>1, <2>2 DEF Work, SameWork
<1>4. work'[q].at = at /\ work'[q].doc = work[q].doc /\ work'[q].content = work[q].content
      /\ work'[q].next = work[q].next /\ work'[q].alone = work[q].alone
  BY <1>1, <1>2 DEF Work
<1>5. QED
  BY <1>1, <1>3, <1>4 DEF ClearChunks

(* A request writes a text, reaches the end, or is over.                     *)
LEMMA GoesOn ==
  ASSUME KnowledgeTypeOK, NEW q \in Requests
  PROVE  /\ WriteChunk(q) =>
              /\ work[q].at = "write" /\ work'[q].at = "write" /\ work'[q].doc = work[q].doc
              /\ work'[q].content = work[q].content /\ work'[q].next = work[q].next + 1
              /\ work'[q].alone = work[q].alone /\ work'[q].intact = work[q].intact
              /\ Untouched(q) /\ docs' = docs /\ Exists(work[q].doc)
         /\ FinishReindex(q) =>
              /\ work[q].at = "write" /\ work'[q].at = "indexed"
              /\ work'[q].doc = work[q].doc /\ work'[q].content = work[q].content
              /\ work'[q].next = work[q].next /\ work[q].next = Len(Split(work[q].content))
              /\ work'[q].alone = work[q].alone /\ work'[q].intact = work[q].intact
              /\ Untouched(q) /\ UNCHANGED <<docs, chunks>>
         /\ RequestEnds(q) => ~Busy(q)' /\ Untouched(q) /\ UNCHANGED <<docs, chunks>>
         /\ RemoveDocument(q) =>
              /\ ~Busy(q)' /\ Untouched(q) /\ chunks' = Others(work[q].doc)
              /\ docs' = [docs EXCEPT ![work[q].doc] = Deleted]
<1>1. work \in [Requests -> Work]
  BY DEF KnowledgeTypeOK
<1>2. QED
  BY <1>1 DEF Work, WriteChunk, FinishReindex, RequestEnds, RemoveDocument, Untouched, Busy,
              NoWork, Cascade

(* A document that is there stays until RemoveDocument, which takes every   *)
(* row with it; a row is only created while its document is there.           *)
LEMMA DocumentsOfRowsStay ==
  KnowledgeInv /\ [KnowledgeNext]_knowledgeVars => ChunksHaveADocument'
<1> SUFFICES ASSUME KnowledgeTypeOK, ChunksHaveADocument, [KnowledgeNext]_knowledgeVars
             PROVE  ChunksHaveADocument'
  BY DEF KnowledgeInv
<1> USE KnowledgeAssumption DEF ChunksHaveADocument
<1>1. CASE WriteDocument
  BY <1>1 DEF WriteDocument, KnowledgeTypeOK, Exists
<1>2. ASSUME NEW q \in Requests, ClearChunks(q) PROVE ChunksHaveADocument'
  BY <1>2, OthersStay DEF ClearChunks, Exists
<1>3. ASSUME NEW q \in Requests, WriteChunk(q) PROVE ChunksHaveADocument'
  <2>1. PICK id \in 1..MaxChunks \ DOMAIN chunks :
          /\ DOMAIN chunks' = DOMAIN chunks \cup {id}
          /\ chunks'[id] = [doc |-> work[q].doc, index |-> work[q].next,
                            text |-> Split(work[q].content)[work[q].next + 1]]
          /\ \A i \in DOMAIN chunks : chunks'[i] = chunks[i]
    BY <1>3, RowIsAdded
  <2>2. chunks'[id].doc = work[q].doc
    BY <2>1
  <2>3. QED
    BY <1>3, <2>1, <2>2 DEF WriteChunk, Exists
<1>4. ASSUME NEW q \in Requests, RemoveDocument(q) PROVE ChunksHaveADocument'
  <2>1. chunks' = Others(work[q].doc) /\ docs' = [docs EXCEPT ![work[q].doc] = Deleted]
    BY <1>4 DEF RemoveDocument, Cascade
  <2>2. \A i \in DOMAIN chunks' : /\ i \in DOMAIN chunks /\ chunks'[i] = chunks[i]
                                  /\ chunks[i].doc # work[q].doc
    BY <2>1, OthersStay DEF RowsOf
  <2>3. QED
    BY <2>1, <2>2 DEF KnowledgeTypeOK, Exists
<1>5. CASE UNCHANGED <<docs, chunks>>
  BY <1>5 DEF Exists
<1>6. QED
  BY <1>1, <1>2, <1>3, <1>4, <1>5
     DEF KnowledgeNext, knowledgeVars, StartReindex, StartDelete, BeginRequest, FinishReindex,
         RequestEnds

(* Whoever begins on a document tells the others and learns of them.         *)
LEMMA AloneStays == KnowledgeInv /\ [KnowledgeNext]_knowledgeVars => AloneAtIt'
<1> SUFFICES ASSUME KnowledgeTypeOK, AloneAtIt, [KnowledgeNext]_knowledgeVars PROVE AloneAtIt'
  BY DEF KnowledgeInv
<1> USE DEF AloneAtIt
<1>1. ASSUME NEW q \in Requests, NEW d \in Docs, StartReindex(q, d) \/ StartDelete(q, d)
      PROVE  AloneAtIt'
  BY <1>1, Begins DEF Busy, SameWork
<1>2. ASSUME NEW q \in Requests,
             ClearChunks(q) \/ WriteChunk(q) \/ FinishReindex(q) \/ RemoveDocument(q) \/ RequestEnds(q)
      PROVE  AloneAtIt'
  BY <1>2, Clears, GoesOn DEF Busy, SameWork, Untouched
<1>3. CASE UNCHANGED work
  BY <1>3 DEF Busy
<1>4. QED
  BY <1>1, <1>2, <1>3 DEF KnowledgeNext, knowledgeVars, WriteDocument

(* A request's document exists when it begins and is never unborn again.     *)
LEMMA OrderStays == KnowledgeInv /\ [KnowledgeNext]_knowledgeVars => RequestsInOrder'
<1> SUFFICES ASSUME KnowledgeTypeOK, RequestsInOrder, [KnowledgeNext]_knowledgeVars
             PROVE  RequestsInOrder'
  BY DEF KnowledgeInv
<1> USE KnowledgeAssumption DEF RequestsInOrder
<1>a. \A q \in Requests : work[q].next \in Nat
  BY DEF KnowledgeTypeOK, Work
<1>1. CASE WriteDocument
  BY <1>1 DEF WriteDocument, KnowledgeTypeOK, Busy
<1>2. ASSUME NEW q \in Requests, NEW d \in Docs, StartReindex(q, d) \/ StartDelete(q, d)
      PROVE  RequestsInOrder'
  BY <1>2, Begins DEF Exists, Busy, SameWork
<1>3. ASSUME NEW q \in Requests, ClearChunks(q) PROVE RequestsInOrder'
  BY <1>3, Clears DEF Busy, SameWork
<1>4. ASSUME NEW q \in Requests, WriteChunk(q) \/ FinishReindex(q) \/ RequestEnds(q)
      PROVE  RequestsInOrder'
  BY <1>4, GoesOn DEF Busy, Untouched
<1>5. ASSUME NEW q \in Requests, RemoveDocument(q) PROVE RequestsInOrder'
  <2>1. \A p \in Requests \ {q} : Busy(p) => docs'[work[p].doc] # Unborn
    BY <1>5, GoesOn DEF KnowledgeTypeOK
  <2>2. QED
    BY <1>5, <2>1, GoesOn DEF Busy, Untouched
<1>6. CASE UNCHANGED knowledgeVars
  BY <1>6 DEF knowledgeVars, Busy
<1>7. QED
  BY <1>1, <1>2, <1>3, <1>4, <1>5, <1>6 DEF KnowledgeNext

-----------------------------------------------------------------------------
(* What request q has written is still there after a step that leaves its    *)
(* count and the rows of its document alone.                                 *)
LEMMA WrittenStays ==
  ASSUME NEW q \in Requests, WrittenSoFar(q), SameWork(q), work'[q].alone => work[q].alone,
         RowsStay(work[q].doc)
  PROVE  WrittenSoFar(q)'
<1> DEFINE d == work[q].doc
<1>1. work'[q].doc = d /\ work'[q].content = work[q].content /\ work'[q].next = work[q].next
  BY DEF SameWork
<1>2. /\ {i \in DOMAIN chunks' : chunks'[i].doc = d} = RowsOf(d)
      /\ \A i \in RowsOf(d) : chunks'[i] = chunks[i]
  BY DEF RowsStay, RowsOf
<1>3. QED
  BY <1>1, <1>2 DEF WrittenSoFar, Holds, RowsOf

(* Another request's row on the document is one row more: what was there     *)
(* stays.                                                                    *)
LEMMA WrittenStaysBelow ==
  ASSUME NEW q \in Requests, WrittenSoFar(q), SameWork(q), ~work'[q].alone,
         \A i \in DOMAIN chunks : i \in DOMAIN chunks' /\ chunks'[i] = chunks[i]
  PROVE  WrittenSoFar(q)'
BY DEF WrittenSoFar, SameWork, Holds, RowsOf

(* The request's own row is the next one.                                    *)
LEMMA WrittenGrows ==
  ASSUME KnowledgeTypeOK, NEW q \in Requests, WrittenSoFar(q), WriteChunk(q)
  PROVE  WrittenSoFar(q)'
<1> DEFINE d == work[q].doc
           n == work[q].next
           texts == Split(work[q].content)
<1>1. /\ work'[q].doc = d /\ work'[q].content = work[q].content /\ work'[q].next = n + 1
      /\ work'[q].alone = work[q].alone
  BY GoesOn
<1>2. PICK id \in 1..MaxChunks \ DOMAIN chunks :
        /\ DOMAIN chunks' = DOMAIN chunks \cup {id}
        /\ chunks'[id] = [doc |-> d, index |-> n, text |-> texts[n + 1]]
        /\ \A i \in DOMAIN chunks : chunks'[i] = chunks[i]
  BY RowIsAdded
<1>3. n \in Nat /\ \A i \in RowsOf(d) : chunks[i].index \in Nat
  BY DEF KnowledgeTypeOK, Work, RowsOf
<1>4. /\ {i \in DOMAIN chunks' : chunks'[i].doc = d} = RowsOf(d) \cup {id}
      /\ chunks'[id].index = n /\ chunks'[id].text = texts[n + 1] /\ id \notin RowsOf(d)
      /\ \A i \in RowsOf(d) : chunks'[i] = chunks[i]
  BY <1>2 DEF RowsOf
<1>5. \A k \in 1..(n + 1) : \E i \in RowsOf(d) \cup {id} :
        chunks'[i].index = k - 1 /\ chunks'[i].text = texts[k]
  <2> SUFFICES ASSUME NEW k \in 1..(n + 1)
               PROVE  \E i \in RowsOf(d) \cup {id} :
                        chunks'[i].index = k - 1 /\ chunks'[i].text = texts[k]
    OBVIOUS
  <2>1. CASE k = n + 1
    BY <1>3, <1>4, <2>1
  <2>2. CASE k \in 1..n
    BY <1>4, <2>2 DEF WrittenSoFar, Holds
  <2>3. QED BY <1>3, <2>1, <2>2
<1>6. work[q].alone =>
        /\ \A i \in RowsOf(d) \cup {id} : chunks'[i].index < n + 1
        /\ \A i, j \in RowsOf(d) \cup {id} : chunks'[i].index = chunks'[j].index => i = j
  BY <1>3, <1>4 DEF WrittenSoFar
<1>7. QED
  BY <1>1, <1>4, <1>5, <1>6 DEF WrittenSoFar, Holds, RowsOf

-----------------------------------------------------------------------------
(* Request by request, what each has written is there after every step.      *)
LEMMA TextsStay == KnowledgeInv /\ [KnowledgeNext]_knowledgeVars => TextsAreThere'
<1> SUFFICES ASSUME KnowledgeInv, [KnowledgeNext]_knowledgeVars, NEW q \in Requests, Writes(q)'
             PROVE  WrittenSoFar(q)'
  BY DEF TextsAreThere
<1>a. KnowledgeTypeOK /\ (Writes(q) => WrittenSoFar(q)) /\ work[q].next \in Nat
  BY DEF KnowledgeInv, TextsAreThere, KnowledgeTypeOK, Work
<1>1. CASE WriteDocument
  <2>1. UNCHANGED <<chunks, work>> /\ (Busy(q) => docs[work[q].doc] # Unborn)
    BY <1>1 DEF WriteDocument, KnowledgeInv, RequestsInOrder
  <2>2. \A d \in Docs : docs'[d] = docs[d] \/ docs[d] # Deleted
    BY <1>1, <1>a DEF WriteDocument, KnowledgeTypeOK
  <2>3. Busy(q) /\ work[q].doc \in Docs
    BY <2>1 DEF Writes, Busy, KnowledgeInv, RequestsInOrder
  <2>4. Writes(q)
    BY <2>1, <2>2, <2>3 DEF Writes, Exists
  <2>5. QED
    BY <1>a, <2>1, <2>4 DEF WrittenSoFar, Holds, RowsOf
<1>2. ASSUME NEW o \in Requests, NEW d \in Docs, StartReindex(o, d) \/ StartDelete(o, d)
      PROVE  WrittenSoFar(q)'
  <2>1. UNCHANGED <<docs, chunks>> /\ q # o
    BY <1>2, <1>a, Begins DEF Writes
  <2>2. SameWork(q) /\ work'[q].intact = work[q].intact /\ (work'[q].alone => work[q].alone)
    BY <1>2, <1>a, <2>1, Begins
  <2>3. Writes(q)
    BY <2>1, <2>2 DEF Writes, SameWork, Exists
  <2>4. QED
    BY <1>a, <2>1, <2>2, <2>3, WrittenStays DEF RowsStay, RowsOf
<1>3. ASSUME NEW o \in Requests, ClearChunks(o) PROVE WrittenSoFar(q)'
  <2>1. CASE o = q
    <3>1. work[q].at = "clear" /\ work'[q].doc = work[q].doc /\ work'[q].next = work[q].next
          /\ chunks' = Others(work[q].doc)
      BY <1>3, <1>a, <2>1, Clears DEF Writes
    <3>2. work'[q].next = 0
      BY <3>1 DEF KnowledgeInv, RequestsInOrder
    <3>3. \A i \in DOMAIN chunks' : chunks'[i].doc # work'[q].doc
      BY <3>1, OthersStay
    <3>4. QED
      BY <3>2, <3>3 DEF WrittenSoFar, RowsOf
  <2>2. CASE o # q
    <3>1. /\ SameWork(q) /\ work'[q].alone = work[q].alone /\ docs' = docs
          /\ work'[q].intact => work[q].intact /\ work[q].doc # work[o].doc
          /\ chunks' = Others(work[o].doc)
      BY <1>3, <1>a, <2>2, Clears
    <3>2. Writes(q) /\ work[q].doc # work[o].doc
      BY <3>1 DEF Writes, SameWork, Exists
    <3>3. RowsStay(work[q].doc)
      BY <3>1, <3>2, OthersStay
    <3>4. QED
      BY <1>a, <3>1, <3>2, <3>3, WrittenStays
  <2>3. QED BY <2>1, <2>2
<1>4. ASSUME NEW o \in Requests, WriteChunk(o) PROVE WrittenSoFar(q)'
  <2>1. CASE o = q
    <3>1. Writes(q)
      BY <1>4, <1>a, <2>1, GoesOn DEF Writes, Exists
    <3>2. QED
      BY <1>4, <1>a, <2>1, <3>1, WrittenGrows
  <2>2. CASE o # q
    <3>1. work'[q] = work[q] /\ docs' = docs /\ Busy(o)
      BY <1>4, <1>a, <2>2, GoesOn DEF Untouched, Busy
    <3>2. Writes(q) /\ SameWork(q)
      BY <3>1 DEF Writes, SameWork, Exists
    <3>3. PICK id \in 1..MaxChunks \ DOMAIN chunks :
            /\ DOMAIN chunks' = DOMAIN chunks \cup {id}
            /\ chunks'[id] = [doc |-> work[o].doc, index |-> work[o].next,
                              text |-> Split(work[o].content)[work[o].next + 1]]
            /\ \A i \in DOMAIN chunks : chunks'[i] = chunks[i]
      BY <1>4, <1>a, RowIsAdded
    <3>4. CASE work[q].alone
      <4>1. chunks'[id].doc # work[q].doc
        BY <2>2, <3>1, <3>2, <3>3, <3>4 DEF KnowledgeInv, AloneAtIt, Writes, Busy
      <4>2. RowsStay(work[q].doc)
        BY <3>3, <4>1 DEF RowsStay, RowsOf
      <4>3. QED
        BY <1>a, <3>1, <3>2, <4>2, WrittenStays
    <3>5. CASE ~work[q].alone
      BY <1>a, <3>1, <3>2, <3>3, <3>5, WrittenStaysBelow
    <3>6. QED BY <3>4, <3>5
  <2>3. QED BY <2>1, <2>2
<1>5. ASSUME NEW o \in Requests, FinishReindex(o) \/ RequestEnds(o) PROVE WrittenSoFar(q)'
  <2>1. /\ UNCHANGED <<docs, chunks>> /\ work'[q].doc = work[q].doc
        /\ work'[q].content = work[q].content /\ work'[q].next = work[q].next
        /\ work'[q].alone = work[q].alone /\ work'[q].intact = work[q].intact
        /\ work[q].at \in {"write", "indexed"}
    BY <1>5, <1>a, GoesOn DEF Writes, Busy, Untouched
  <2>2. Writes(q)
    BY <2>1 DEF Writes, Exists
  <2>3. QED
    BY <1>a, <2>1, <2>2 DEF WrittenSoFar, Holds, RowsOf
<1>6. ASSUME NEW o \in Requests, RemoveDocument(o) PROVE WrittenSoFar(q)'
  <2>1. /\ work'[q] = work[q] /\ q # o /\ chunks' = Others(work[o].doc)
        /\ docs' = [docs EXCEPT ![work[o].doc] = Deleted]
    BY <1>6, <1>a, GoesOn DEF Writes, Busy, Untouched
  <2>2. Busy(q) /\ work[q].doc \in Docs
    BY <2>1 DEF Writes, Busy, KnowledgeInv, RequestsInOrder
  <2>3. work[q].doc # work[o].doc /\ Writes(q)
    BY <1>a, <2>1, <2>2 DEF Writes, Exists, KnowledgeTypeOK
  <2>4. RowsStay(work[q].doc)
    BY <2>1, <2>3, OthersStay
  <2>5. QED
    BY <1>a, <2>1, <2>3, <2>4, WrittenStays DEF SameWork
<1>7. CASE UNCHANGED knowledgeVars
  BY <1>7, <1>a DEF knowledgeVars, Writes, Exists, WrittenSoFar, Holds, RowsOf
<1>8. QED
  BY <1>1, <1>2, <1>3, <1>4, <1>5, <1>6, <1>7 DEF KnowledgeNext

-----------------------------------------------------------------------------
(* No other area touches the knowledge base.                                 *)
LEMMA KnowledgeHolds == Spec => []KnowledgeInv
<1>1. Init => KnowledgeInv
  BY KnowledgeStarts DEF Init
<1>2. KnowledgeInv /\ [Next]_vars => KnowledgeInv'
  <2>1. [Next]_vars => [KnowledgeNext]_knowledgeVars
    BY DEF Next, vars, DecisionArea, ConfigArea, GenerationArea, KnowledgeArea, RegistryArea,
           knowledgeVars
  <2>2. KnowledgeInv /\ [KnowledgeNext]_knowledgeVars => KnowledgeInv'
    BY KnowledgeTypes, DocumentsOfRowsStay, AloneStays, OrderStays, TextsStay DEF KnowledgeInv
  <2>3. QED BY <2>1, <2>2
<1>3. QED
  BY <1>1, <1>2, PTL DEF Spec

(* A reindex that ends has left a row for every text of the content it read, *)
(* unless another request cleared them after it did; and if it had the       *)
(* document to itself, one row for each and nothing else.                    *)
THEOREM ReindexLosesNothingHolds == Spec => []ReindexLosesNothing
<1>1. KnowledgeInv => ReindexLosesNothing
  <2> SUFFICES ASSUME KnowledgeInv, NEW q \in Requests,
                      work[q].at = "indexed" /\ work[q].intact /\ Exists(work[q].doc)
               PROVE  /\ \A n \in 1..Len(Split(work[q].content)) :
                           Holds(work[q].doc, n - 1, Split(work[q].content)[n])
                      /\ work[q].alone =>
                           /\ \A i \in RowsOf(work[q].doc) :
                                chunks[i].index < Len(Split(work[q].content))
                           /\ \A i, j \in RowsOf(work[q].doc) :
                                chunks[i].index = chunks[j].index => i = j
    BY DEF ReindexLosesNothing
  <2>1. work[q].next = Len(Split(work[q].content)) /\ WrittenSoFar(q)
    BY DEF KnowledgeInv, RequestsInOrder, TextsAreThere, Writes
  <2>2. QED
    BY <2>1 DEF WrittenSoFar
<1>2. QED
  BY <1>1, KnowledgeHolds, PTL

-----------------------------------------------------------------------------
(* How a content is cut: the lemmas of splitContentToChunks.                 *)
(* What holds of zero and of the successor of each number it holds of, holds *)
(* of every number.                                                          *)
LEMMA NaturalsAreReached ==
  ASSUME NEW S, 0 \in S, \A n \in Nat : n \in S => n + 1 \in S
  PROVE  Nat \subseteq S
<1> DEFINE rest == Nat \ S
<1> SUFFICES ASSUME rest # {} PROVE FALSE
  BY DEF rest
<1> HIDE DEF rest
<1>1. rest \subseteq Nat
  BY DEF rest
<1>2. PICK x \in rest : \A y \in rest : <<y, x>> \notin OpToRel(<, Nat)
  BY <1>1, WFMin, NatLessThanWellFounded, Zenon
<1>3. \A y \in rest : ~(y < x)
  BY <1>1, <1>2, Zenon DEF OpToRel
<1>4. x \in Nat /\ x \notin S /\ x # 0
  BY DEF rest
<1>5. x - 1 \in Nat /\ x - 1 < x /\ (x - 1) + 1 = x
  BY <1>4
<1>6. x - 1 \in S
  BY <1>3, <1>5 DEF rest
<1>7. QED
  BY <1>4, <1>5, <1>6

(* Multiples of a length keep their order, with room for one between two.    *)
LEMMA MultiplesInOrder ==
  ASSUME NEW M \in Nat \ {0}, NEW a \in Nat, NEW b \in Nat
  PROVE  /\ a * M \in Nat
         /\ a <= b => a * M <= b * M
         /\ a < b => a * M + M <= b * M
  OBVIOUS

(* A number lies between two neighbouring multiples of a length.             *)
LEMMA BetweenMultiples ==
  ASSUME NEW M \in Nat \ {0}, NEW a \in Nat
  PROVE  /\ a \div M \in Nat
         /\ (a \div M) * M <= a
         /\ a < (a \div M) * M + M
  OBVIOUS

-----------------------------------------------------------------------------
(* The states of the cutting exist: the recursive definition has a solution. *)
Begun == [out |-> <<>>, cur |-> NoText]
Solves(f, content, k) ==
    f = [n \in 0..k |-> IF n = 0 THEN Begun
                        ELSE TakeParagraph(f[n - 1], n, content[n])]

LEMMA CuttingSolves ==
  ASSUME NEW content, Len(content) \in Nat
  PROVE  Solves(Cutting(content), content, Len(content))
<1> DEFINE Solvable == {k \in Nat : \E f : Solves(f, content, k)}
<1>1. 0 \in Solvable
  <2>1. Solves([n \in 0..0 |-> Begun], content, 0)
    BY DEF Solves
  <2>2. QED BY <2>1
<1>2. ASSUME NEW k \in Nat, k \in Solvable PROVE k + 1 \in Solvable
  <2>1. PICK f : Solves(f, content, k)
    BY <1>2
  <2> DEFINE Step(g, n) == TakeParagraph(g[n - 1], n, content[n])
             h == [n \in 0..(k + 1) |-> IF n = k + 1 THEN Step(f, k + 1) ELSE f[n]]
  <2>2. \A n \in 0..k : f[n] = IF n = 0 THEN Begun ELSE Step(f, n)
    BY <2>1 DEF Solves
  <2>3. \A n \in 1..(k + 1) : h[n - 1] = f[n - 1]
    BY <1>2
  <2>4. \A n \in 1..(k + 1) : Step(h, n) = Step(f, n)
    BY <2>3
  <2> HIDE DEF Step
  <2>5. \A n \in 0..(k + 1) : h[n] = IF n = 0 THEN Begun ELSE Step(h, n)
    <3> TAKE n \in 0..(k + 1)
    <3>1. CASE n = k + 1
      BY <2>4, <3>1
    <3>2. CASE n \in 0..k
      BY <2>2, <2>4, <3>2
    <3>3. QED BY <3>1, <3>2
  <2>6. h = [n \in 0..(k + 1) |-> IF n = 0 THEN Begun ELSE Step(h, n)]
    <3> DEFINE g == [n \in 0..(k + 1) |-> IF n = 0 THEN Begun ELSE Step(h, n)]
    <3>1. DOMAIN h = 0..(k + 1) /\ \A n \in 0..(k + 1) : h[n] = g[n]
      BY <2>5
    <3>2. h = [n \in 0..(k + 1) |-> h[n]]
      OBVIOUS
    <3> HIDE DEF h
    <3>3. g = [n \in 0..(k + 1) |-> h[n]]
      BY <3>1
    <3>4. QED BY <3>2, <3>3
  <2> HIDE DEF h
  <2>7. Solves(h, content, k + 1)
    BY <2>6 DEF Solves, Step
  <2>8. QED BY <2>7
<1>3. Nat \subseteq Solvable
  BY <1>1, <1>2, NaturalsAreReached
<1>4. \E f : Solves(f, content, Len(content))
  BY <1>3
<1>5. Cutting(content) = CHOOSE f : Solves(f, content, Len(content))
  BY DEF Cutting, Solves, Begun
<1>6. QED
  BY <1>4, <1>5

-----------------------------------------------------------------------------
PieceSet == [par : Nat, from : Nat, len : Nat]
TextSet == [len : Nat, pieces : Seq(PieceSet)]

Indices(s) == 1..Len(s)

(* Texts of the paragraphs a to b that fit and stay within them ...          *)
FitWithin(texts, content, a, b) ==
    \A n \in Indices(texts) :
      /\ texts[n].len <= MaxLen
      /\ \A i \in Indices(texts[n].pieces) :
           Within(texts[n].pieces[i], content) /\ texts[n].pieces[i].par \in a..b

(* ... hold every character of them ...                                      *)
Complete(texts, content, a, b) ==
    \A p \in a..b : \A c \in 0..(content[p] - 1) :
      \E n \in Indices(texts) : \E i \in Indices(texts[n].pieces) :
        HasChar(texts[n].pieces[i], p, c)

(* ... and in order.                                                         *)
InOrder(texts) ==
    \A n, m \in Indices(texts) :
      \A i \in Indices(texts[n].pieces), j \in Indices(texts[m].pieces) :
        n < m \/ (n = m /\ i < j) => EndsBefore(texts[n].pieces[i], texts[m].pieces[j])

IsCut(texts, content, a, b) ==
    /\ texts \in Seq(TextSet)
    /\ FitWithin(texts, content, a, b)
    /\ Complete(texts, content, a, b)
    /\ InOrder(texts)

(* Texts of the paragraphs up to one, and then texts of the next: together   *)
(* they are a cut of all of these.                                           *)
LEMMA CutsConcatenate ==
  ASSUME NEW content, NEW k \in Nat, NEW texts, NEW more,
         IsCut(texts, content, 1, k), IsCut(more, content, k + 1, k + 1)
  PROVE  IsCut(texts \o more, content, 1, k + 1)
<1> DEFINE all == texts \o more
           N == Len(texts)
           M == Len(more)
<1>1. texts \in Seq(TextSet) /\ more \in Seq(TextSet)
  BY DEF IsCut
<1>2. /\ all \in Seq(TextSet) /\ Len(all) = N + M /\ N \in Nat /\ M \in Nat
      /\ \A n \in 1..(N + M) : all[n] = IF n <= N THEN texts[n] ELSE more[n - N]
  BY <1>1
<1> HIDE DEF all, N, M
<1>3. \A n \in 1..N : all[n] = texts[n] /\ n \in Indices(texts)
  BY <1>2 DEF Indices, N
<1>4. \A n \in 1..M : all[n + N] = more[n] /\ n + N \in 1..(N + M)
  BY <1>2
<1>5. \A n \in (N + 1)..(N + M) : all[n] = more[n - N] /\ n - N \in Indices(more)
  BY <1>2 DEF Indices, M
<1>6. Indices(all) = 1..(N + M) /\ Indices(texts) = 1..N /\ Indices(more) = 1..M
  BY <1>2 DEF Indices, N, M
<1>7. \A n \in Indices(all) : n \in 1..N \/ n \in (N + 1)..(N + M)
  BY <1>2, <1>6
<1>8. FitWithin(all, content, 1, k + 1)
  <2> SUFFICES ASSUME NEW n \in Indices(all)
               PROVE  /\ all[n].len <= MaxLen
                      /\ \A i \in Indices(all[n].pieces) :
                           /\ Within(all[n].pieces[i], content)
                           /\ all[n].pieces[i].par \in 1..(k + 1)
    BY DEF FitWithin
  <2>1. CASE n \in 1..N
    BY <1>3, <2>1 DEF IsCut, FitWithin
  <2>2. CASE n \in (N + 1)..(N + M)
    <3>1. n - N \in Indices(more) /\ all[n] = more[n - N]
      BY <1>5, <2>2
    <3>2. FitWithin(more, content, k + 1, k + 1)
      BY DEF IsCut
    <3>3. /\ all[n].len <= MaxLen
          /\ \A i \in Indices(all[n].pieces) :
               Within(all[n].pieces[i], content) /\ all[n].pieces[i].par \in (k + 1)..(k + 1)
      BY <3>1, <3>2 DEF FitWithin
    <3>4. (k + 1)..(k + 1) \subseteq 1..(k + 1)
      OBVIOUS
    <3>5. QED BY <3>3, <3>4
  <2>3. QED BY <1>7, <2>1, <2>2
<1>9. Complete(all, content, 1, k + 1)
  <2> SUFFICES ASSUME NEW p \in 1..(k + 1), NEW c \in 0..(content[p] - 1)
               PROVE  \E n \in Indices(all) : \E i \in Indices(all[n].pieces) :
                        HasChar(all[n].pieces[i], p, c)
    BY DEF Complete
  <2>1. CASE p \in 1..k
    <3>1. PICK n \in Indices(texts) : \E i \in Indices(texts[n].pieces) :
                 HasChar(texts[n].pieces[i], p, c)
      BY <2>1 DEF IsCut, Complete
    <3>2. n \in Indices(all) /\ all[n] = texts[n]
      BY <1>2, <1>3, <1>6
    <3>3. QED BY <3>1, <3>2
  <2>2. CASE p = k + 1
    <3>1. PICK n \in Indices(more) : \E i \in Indices(more[n].pieces) :
                 HasChar(more[n].pieces[i], p, c)
      BY <2>2 DEF IsCut, Complete
    <3>2. n + N \in Indices(all) /\ all[n + N] = more[n]
      BY <1>4, <1>6
    <3>3. QED BY <3>1, <3>2
  <2>3. QED BY <2>1, <2>2
<1>10. InOrder(all)
  <2> SUFFICES ASSUME NEW n \in Indices(all), NEW m \in Indices(all),
                      NEW i \in Indices(all[n].pieces), NEW j \in Indices(all[m].pieces),
                      n < m \/ (n = m /\ i < j)
               PROVE  EndsBefore(all[n].pieces[i], all[m].pieces[j])
    BY DEF InOrder
  <2>1. CASE n \in 1..N /\ m \in 1..N
    BY <1>3, <2>1 DEF IsCut, InOrder
  <2>2. CASE n \in 1..N /\ m \in (N + 1)..(N + M)
    <3>1. all[n].pieces[i].par \in 1..k
      BY <1>3, <2>2 DEF IsCut, FitWithin
    <3>2. all[m].pieces[j].par = k + 1
      <4>1. m - N \in Indices(more) /\ all[m] = more[m - N]
        BY <1>5, <2>2
      <4>2. FitWithin(more, content, k + 1, k + 1)
        BY DEF IsCut
      <4>3. all[m].pieces[j].par \in (k + 1)..(k + 1)
        BY <4>1, <4>2 DEF FitWithin
      <4>4. QED BY <4>3
    <3>3. QED BY <3>1, <3>2 DEF EndsBefore
  <2>3. CASE n \in (N + 1)..(N + M) /\ m \in (N + 1)..(N + M)
    <3>1. n - N < m - N \/ (n - N = m - N /\ i < j)
      BY <1>2, <2>3
    <3>2. /\ all[n] = more[n - N] /\ n - N \in Indices(more)
          /\ all[m] = more[m - N] /\ m - N \in Indices(more)
      BY <1>5, <2>3
    <3>3. QED BY <3>1, <3>2 DEF IsCut, InOrder
  <2>4. ~(n \in (N + 1)..(N + M) /\ m \in 1..N)
    BY <1>2
  <2>5. QED BY <1>7, <2>1, <2>2, <2>3, <2>4
<1>11. QED
  BY <1>2, <1>8, <1>9, <1>10 DEF IsCut, all

(* A piece of a paragraph, by itself, is a text.                             *)
LEMMA TextType ==
  ASSUME NEW p \in Nat, NEW from \in Nat, NEW len \in Nat
  PROVE  /\ Text(p, from, len) \in TextSet
         /\ Len(Text(p, from, len).pieces) = 1
         /\ Text(p, from, len).pieces[1] = Piece(p, from, len)
         /\ Text(p, from, len).len = len
  BY DEF Text, Piece, TextSet, PieceSet

(* A paragraph that fits is a cut of itself.                                 *)
LEMMA WholeIsCut ==
  ASSUME NEW content \in Seq(Nat \ {0}), NEW p \in 1..Len(content), content[p] <= MaxLen
  PROVE  IsCut(<<Text(p, 0, content[p])>>, content, p, p)
<1> DEFINE t == Text(p, 0, content[p])
           x == Piece(p, 0, content[p])
<1>1. p \in Nat /\ content[p] \in Nat
  OBVIOUS
<1>2. t \in TextSet /\ Len(t.pieces) = 1 /\ t.pieces[1] = x /\ t.len = content[p]
  <2>1. 0 \in Nat
    OBVIOUS
  <2> HIDE DEF t, x
  <2>2. QED BY <1>1, <2>1, TextType DEF t, x
<1>3. x.par = p /\ x.from = 0 /\ x.len = content[p]
  BY DEF Piece
<1>4. /\ <<t>> \in Seq(TextSet) /\ Len(<<t>>) = 1 /\ <<t>>[1] = t
  BY <1>2
<1> HIDE DEF t, x
<1>5. Indices(<<t>>) = {1} /\ Indices(t.pieces) = {1}
  <2>1. 1..1 = {1}
    OBVIOUS
  <2>2. QED BY <1>2, <1>4, <2>1, Zenon DEF Indices
<1>6. FitWithin(<<t>>, content, p, p)
  <2>1. Within(x, content) /\ x.par \in p..p
    BY <1>1, <1>3 DEF Within
  <2>2. QED BY <1>2, <1>4, <1>5, <2>1 DEF FitWithin
<1>7. Complete(<<t>>, content, p, p)
  <2>1. \A q \in p..p : q = p
    OBVIOUS
  <2>2. \A c \in 0..(content[p] - 1) : HasChar(x, p, c)
    BY <1>1, <1>3 DEF HasChar
  <2>3. QED BY <1>2, <1>4, <1>5, <2>1, <2>2, Zenon DEF Complete
<1>8. InOrder(<<t>>)
  BY <1>4, <1>5 DEF InOrder
<1>9. QED BY <1>4, <1>6, <1>7, <1>8 DEF IsCut, t

(* A paragraph that joins the text in hand extends the cut.                  *)
LEMMA JoinedIsCut ==
  ASSUME NEW content \in Seq(Nat \ {0}), NEW k \in Nat, k + 1 \in 1..Len(content),
         NEW out \in Seq(TextSet), NEW cur \in TextSet, cur.len # 0,
         IsCut(Append(out, cur), content, 1, k),
         cur.len + content[k + 1] + 2 <= MaxLen
  PROVE  /\ Joined(cur, k + 1, content[k + 1]) \in TextSet
         /\ IsCut(Append(out, Joined(cur, k + 1, content[k + 1])), content, 1, k + 1)
<1> DEFINE old == Append(out, cur)
           x == Piece(k + 1, 0, content[k + 1])
           pieces == Append(cur.pieces, x)
           len == cur.len + 2 + content[k + 1]
           joined == [len |-> len, pieces |-> pieces]
           new == Append(out, joined)
           N == Len(out)
           L == Len(cur.pieces)
<1>1. /\ content[k + 1] \in Nat /\ cur.len \in Nat /\ cur.pieces \in Seq(PieceSet)
      /\ N \in Nat /\ L \in Nat
  BY DEF TextSet
<1>2. x \in PieceSet /\ x.par = k + 1 /\ x.from = 0 /\ x.len = content[k + 1]
  BY <1>1 DEF Piece, PieceSet
<1> HIDE DEF x
<1>3. /\ Append(cur.pieces, x) \in Seq(PieceSet)
      /\ Len(Append(cur.pieces, x)) = L + 1
      /\ Append(cur.pieces, x)[L + 1] = x
      /\ \A i \in 1..L : Append(cur.pieces, x)[i] = cur.pieces[i]
  BY <1>1, <1>2
<1>4. /\ joined \in TextSet /\ joined.len <= MaxLen
      /\ Len(joined.pieces) = L + 1 /\ joined.pieces[L + 1] = x
      /\ \A i \in 1..L : joined.pieces[i] = cur.pieces[i]
  <2>1. len \in Nat /\ len <= MaxLen
    BY <1>1, KnowledgeAssumption
  <2>2. /\ pieces \in Seq(PieceSet) /\ Len(pieces) = L + 1 /\ pieces[L + 1] = x
        /\ \A i \in 1..L : pieces[i] = cur.pieces[i]
    BY <1>3
  <2> HIDE DEF pieces, len, L
  <2>3. joined.pieces = pieces /\ joined.len = len
    OBVIOUS
  <2>4. joined \in TextSet
    BY <2>1, <2>2 DEF TextSet
  <2> HIDE DEF joined
  <2>5. QED BY <2>1, <2>2, <2>3, <2>4
<1>5. joined = Joined(cur, k + 1, content[k + 1])
  BY DEF Joined, x, pieces, len
<1> HIDE DEF joined
<1>6. /\ new \in Seq(TextSet) /\ Len(new) = N + 1 /\ new[N + 1] = joined
      /\ Len(old) = N + 1 /\ old[N + 1] = cur
      /\ \A n \in 1..N : new[n] = old[n]
  BY <1>4
<1> HIDE DEF new, old, N, L
<1>7. Indices(new) = 1..(N + 1) /\ Indices(old) = 1..(N + 1)
  BY <1>6 DEF Indices
<1>8. Indices(joined.pieces) = 1..(L + 1) /\ Indices(cur.pieces) = 1..L
  BY <1>4 DEF Indices, L
<1> DEFINE Kept(n, i) == i \in Indices(old[n].pieces) /\ new[n].pieces[i] = old[n].pieces[i]
<1>9. ASSUME NEW n \in Indices(new), NEW i \in Indices(new[n].pieces)
      PROVE  Kept(n, i) \/ (n = N + 1 /\ i = L + 1 /\ new[n].pieces[i] = x)
  <2>1. CASE n \in 1..N
    BY <1>6, <2>1
  <2>2. CASE n = N + 1
    <3>1. new[n] = joined /\ old[n] = cur
      BY <1>6, <2>2
    <3>2. i \in 1..(L + 1)
      BY <1>8, <3>1
    <3>3. CASE i \in 1..L
      BY <1>4, <1>8, <3>1, <3>3
    <3>4. CASE i = L + 1
      BY <1>4, <2>2, <3>1, <3>4
    <3>5. QED BY <1>1, <3>2, <3>3, <3>4
  <2>3. QED BY <1>1, <1>7, <2>1, <2>2
<1>10. ASSUME NEW n \in Indices(old), NEW i \in Indices(old[n].pieces)
       PROVE  i \in Indices(new[n].pieces) /\ new[n].pieces[i] = old[n].pieces[i]
  <2>1. CASE n \in 1..N
    BY <1>6, <2>1
  <2>2. CASE n = N + 1
    BY <1>1, <1>4, <1>6, <1>8, <2>2
  <2>3. QED BY <1>1, <1>7, <2>1, <2>2
<1> HIDE DEF Kept
<1>11. FitWithin(old, content, 1, k) /\ Complete(old, content, 1, k) /\ InOrder(old)
  BY DEF IsCut, old
<1>12. ASSUME NEW n \in Indices(new), NEW i \in Indices(new[n].pieces), Kept(n, i)
       PROVE  Within(new[n].pieces[i], content) /\ new[n].pieces[i].par \in 1..k
  BY <1>7, <1>11, <1>12 DEF FitWithin, Kept
<1>13. FitWithin(new, content, 1, k + 1)
  <2>1. ASSUME NEW n \in Indices(new) PROVE new[n].len <= MaxLen
    <3>1. CASE n \in 1..N
      BY <1>6, <1>7, <1>11, <3>1 DEF FitWithin
    <3>2. CASE n = N + 1
      BY <1>4, <1>6, <3>2
    <3>3. QED BY <1>1, <1>7, <3>1, <3>2
  <2>2. ASSUME NEW n \in Indices(new), NEW i \in Indices(new[n].pieces)
        PROVE  Within(new[n].pieces[i], content) /\ new[n].pieces[i].par \in 1..(k + 1)
    <3>1. CASE Kept(n, i)
      BY <1>12, <3>1
    <3>2. CASE new[n].pieces[i] = x
      BY <1>1, <1>2, <3>2 DEF Within
    <3>3. QED BY <1>9, <3>1, <3>2
  <2>3. QED BY <2>1, <2>2 DEF FitWithin
<1>14. Complete(new, content, 1, k + 1)
  <2> SUFFICES ASSUME NEW p \in 1..(k + 1), NEW c \in 0..(content[p] - 1)
               PROVE  \E n \in Indices(new) : \E i \in Indices(new[n].pieces) :
                        HasChar(new[n].pieces[i], p, c)
    BY DEF Complete
  <2>1. CASE p \in 1..k
    <3>1. PICK n \in Indices(old) : \E i \in Indices(old[n].pieces) :
                 HasChar(old[n].pieces[i], p, c)
      BY <1>11, <2>1 DEF Complete
    <3>2. QED BY <1>7, <1>10, <3>1
  <2>2. CASE p = k + 1
    <3>1. HasChar(x, p, c)
      BY <1>1, <1>2, <2>2 DEF HasChar
    <3>2. N + 1 \in Indices(new) /\ L + 1 \in Indices(new[N + 1].pieces)
      BY <1>1, <1>6, <1>7, <1>8
    <3>3. new[N + 1].pieces[L + 1] = x
      BY <1>4, <1>6
    <3>4. QED BY <3>1, <3>2, <3>3
  <2>3. QED BY <2>1, <2>2
<1>15. InOrder(new)
  <2> SUFFICES ASSUME NEW n \in Indices(new), NEW m \in Indices(new),
                      NEW i \in Indices(new[n].pieces), NEW j \in Indices(new[m].pieces),
                      n < m \/ (n = m /\ i < j)
               PROVE  EndsBefore(new[n].pieces[i], new[m].pieces[j])
    BY DEF InOrder
  <2>1. CASE Kept(n, i) /\ Kept(m, j)
    BY <1>7, <1>11, <2>1 DEF InOrder, Kept
  <2>2. CASE Kept(n, i) /\ new[m].pieces[j] = x
    BY <1>2, <1>12, <2>2 DEF EndsBefore
  <2>3. CASE n = N + 1 /\ i = L + 1
    <3>1. m \in 1..(N + 1)
      BY <1>7
    <3>2. n = m /\ i < j
      BY <1>1, <2>3, <3>1
    <3>3. j \in 1..(L + 1)
      BY <1>6, <1>8, <2>3, <3>2
    <3>4. QED BY <1>1, <2>3, <3>2, <3>3
  <2>4. QED BY <1>9, <2>1, <2>2, <2>3
<1>16. QED
  BY <1>4, <1>5, <1>6, <1>13, <1>14, <1>15 DEF IsCut, new

(* No text is a cut of no paragraph.                                         *)
LEMMA NothingIsCut ==
  ASSUME NEW content, NEW k \in Nat
  PROVE  IsCut(<<>>, content, k + 1, k)
<1>1. <<>> \in Seq(TextSet) /\ Indices(<<>>) = {}
  BY DEF Indices
<1>2. (k + 1)..k = {}
  OBVIOUS
<1>3. QED
  BY <1>1, <1>2 DEF IsCut, FitWithin, Complete, InOrder

(* The slices of a paragraph that does not fit are a cut of it: each is as   *)
(* long as a text may be or ends the paragraph, and the next begins where it *)
(* ends.                                                                     *)
LEMMA SlicesAreCut ==
  ASSUME NEW content \in Seq(Nat \ {0}), NEW p \in 1..Len(content), content[p] > MaxLen
  PROVE  IsCut(Slices(p, content[p]), content, p, p)
<1> DEFINE S == Slices(p, content[p])
           len == content[p]
           K == (len + MaxLen - 1) \div MaxLen
           From(i) == (i - 1) * MaxLen
           Size(i) == IF i * MaxLen > len THEN len - From(i) ELSE MaxLen
           x(i) == Piece(p, From(i), Size(i))
<1>1. len \in Nat \ {0} /\ p \in Nat /\ MaxLen \in Nat \ {0}
  BY KnowledgeAssumption
<1> HIDE DEF len
<1>2. K \in Nat /\ K * MaxLen <= len + MaxLen - 1
  <2>1. len + MaxLen - 1 \in Nat
    BY <1>1
  <2>2. QED BY <1>1, <2>1, BetweenMultiples
<1>3. len < K * MaxLen + 1
  <2>1. len + MaxLen - 1 \in Nat
    BY <1>1
  <2>2. len + MaxLen - 1 < K * MaxLen + MaxLen
    BY <1>1, <2>1, BetweenMultiples
  <2>3. K * MaxLen \in Nat
    BY <1>1, <1>2, MultiplesInOrder
  <2> HIDE DEF K
  <2>4. QED BY <1>1, <2>2, <2>3
<1> HIDE DEF K
<1>4. ASSUME NEW i \in 1..K
      PROVE  /\ From(i) \in Nat /\ i * MaxLen \in Nat
             /\ i * MaxLen = From(i) + MaxLen
             /\ From(i) < len
  <2>1. i \in Nat /\ i - 1 \in Nat /\ i - 1 < K
    BY <1>2
  <2>2. From(i) \in Nat /\ i * MaxLen \in Nat /\ From(i) + MaxLen <= i * MaxLen
        /\ From(i) + MaxLen <= K * MaxLen
    BY <1>1, <1>2, <2>1, MultiplesInOrder
  <2>3. i * MaxLen = From(i) + MaxLen
    BY <1>1, <2>1
  <2>4. K * MaxLen \in Nat
    BY <1>1, <1>2, MultiplesInOrder
  <2> HIDE DEF From
  <2>5. QED BY <1>1, <1>2, <2>2, <2>3, <2>4
<1>5. ASSUME NEW i \in 1..K
      PROVE  Size(i) \in Nat /\ Size(i) <= MaxLen /\ From(i) + Size(i) <= len
  BY <1>1, <1>4
<1>6. ASSUME NEW i \in 1..K, NEW j \in 1..K, i < j
      PROVE  From(i) + Size(i) <= From(j)
  <2>1. i \in Nat /\ j - 1 \in Nat /\ i <= j - 1
    BY <1>2, <1>6
  <2>2. i * MaxLen <= From(j)
    BY <1>1, <2>1, MultiplesInOrder
  <2>3. From(i) + Size(i) <= i * MaxLen
    BY <1>1, <1>4, <1>5
  <2>4. From(j) \in Nat /\ From(i) \in Nat
    BY <1>4
  <2> HIDE DEF From, Size
  <2>5. QED BY <1>4, <1>5, <2>2, <2>3, <2>4
<1>7. ASSUME NEW c \in 0..(len - 1)
      PROVE  \E i \in 1..K : From(i) <= c /\ c < From(i) + Size(i)
  <2> DEFINE q == c \div MaxLen
  <2>1. c \in Nat /\ c < len
    BY <1>1
  <2>2. q \in Nat /\ q * MaxLen <= c /\ c < q * MaxLen + MaxLen
    BY <1>1, <2>1, BetweenMultiples
  <2> HIDE DEF q
  <2>3. q < K
    <3> SUFFICES ASSUME K <= q PROVE FALSE
      BY <1>2, <2>2
    <3>1. K * MaxLen <= q * MaxLen
      BY <1>1, <1>2, <2>2, MultiplesInOrder
    <3>2. K * MaxLen \in Nat /\ q * MaxLen \in Nat
      BY <1>1, <1>2, <2>2, MultiplesInOrder
    <3>3. QED BY <1>1, <1>3, <2>1, <2>2, <3>1, <3>2
  <2>4. q + 1 \in 1..K /\ From(q + 1) = q * MaxLen
    BY <1>2, <2>2, <2>3
  <2>5. q * MaxLen \in Nat /\ (q + 1) * MaxLen = q * MaxLen + MaxLen
    BY <1>1, <2>2
  <2>6. c < From(q + 1) + Size(q + 1)
    BY <1>1, <2>1, <2>2, <2>4, <2>5
  <2>7. QED BY <2>2, <2>4, <2>6
<1>8. ASSUME NEW i \in 1..K
      PROVE  /\ S[i] \in TextSet
             /\ Len(S[i].pieces) = 1
             /\ S[i].pieces[1] = x(i)
             /\ S[i].len = Size(i)
  <2>1. S[i] = Text(p, From(i), Size(i))
    BY DEF Slices, K, len
  <2>2. From(i) \in Nat /\ Size(i) \in Nat
    BY <1>4, <1>5
  <2> HIDE DEF S, From, Size
  <2> DEFINE t == Text(p, From(i), Size(i))
  <2>3. t \in TextSet /\ Len(t.pieces) = 1 /\ t.len = Size(i)
        /\ t.pieces[1] = Piece(p, From(i), Size(i))
    BY <1>1, <2>2, TextType
  <2>4. QED BY <2>1, <2>3
<1>9. S \in Seq(TextSet) /\ Len(S) = K
  <2>1. S = [i \in 1..K |-> S[i]]
    BY DEF Slices, K, len
  <2> HIDE DEF S
  <2>2. S \in [1..K -> TextSet]
    BY <1>8, <2>1
  <2>3. QED BY <1>2, <2>2
<1> HIDE DEF S, From, Size
<1>10. \A i \in 1..K : x(i).par = p /\ x(i).from = From(i) /\ x(i).len = Size(i)
  BY DEF Piece
<1> HIDE DEF x
<1>11. Indices(S) = 1..K /\ \A i \in 1..K : Indices(S[i].pieces) = {1}
  <2>1. 1..1 = {1}
    OBVIOUS
  <2>2. QED BY <1>8, <1>9, <2>1 DEF Indices
<1>12. FitWithin(S, content, p, p)
  <2>1. \A i \in 1..K : Within(x(i), content) /\ x(i).par \in p..p
    BY <1>1, <1>4, <1>5, <1>10 DEF Within, len
  <2>2. QED BY <1>5, <1>8, <1>11, <2>1 DEF FitWithin
<1>13. Complete(S, content, p, p)
  <2> SUFFICES ASSUME NEW q \in p..p, NEW c \in 0..(content[q] - 1)
               PROVE  \E n \in Indices(S) : \E i \in Indices(S[n].pieces) :
                        HasChar(S[n].pieces[i], q, c)
    BY DEF Complete
  <2>1. q = p /\ c \in 0..(len - 1)
    BY <1>1 DEF len
  <2>2. PICK i \in 1..K : From(i) <= c /\ c < From(i) + Size(i)
    BY <1>7, <2>1
  <2>3. HasChar(x(i), p, c)
    BY <1>4, <1>5, <1>10, <2>1, <2>2 DEF HasChar
  <2>4. QED BY <1>8, <1>11, <2>1, <2>3
<1>14. InOrder(S)
  <2> SUFFICES ASSUME NEW n \in 1..K, NEW m \in 1..K,
                      NEW i \in Indices(S[n].pieces), NEW j \in Indices(S[m].pieces),
                      n < m \/ (n = m /\ i < j)
               PROVE  EndsBefore(S[n].pieces[i], S[m].pieces[j])
    BY <1>11 DEF InOrder
  <2>1. i = 1 /\ j = 1
    BY <1>11
  <2>2. n < m /\ S[n].pieces[i] = x(n) /\ S[m].pieces[j] = x(m)
    BY <1>8, <2>1
  <2>3. QED BY <1>6, <1>10, <2>2 DEF EndsBefore
<1>15. QED
  BY <1>9, <1>12, <1>13, <1>14 DEF IsCut, S, len

-----------------------------------------------------------------------------
(* The texts cut off and the text in hand are a cut of the paragraphs so far.*)
CutSoFar(st, content, k) ==
    /\ st \in [out : Seq(TextSet), cur : TextSet]
    /\ IsCut(Flushed(st), content, 1, k)

(* Taking one more paragraph, they still are.                                *)
LEMMA ParagraphIsCut ==
  ASSUME NEW content \in Seq(Nat \ {0}), NEW k \in Nat, k + 1 \in 1..Len(content),
         NEW st, CutSoFar(st, content, k)
  PROVE  CutSoFar(TakeParagraph(st, k + 1, content[k + 1]), content, k + 1)
<1> DEFINE p == k + 1
           len == content[p]
<1>1. /\ p \in Nat /\ p \in 1..Len(content) /\ len \in Nat \ {0}
      /\ st.out \in Seq(TextSet) /\ st.cur \in TextSet /\ st.cur.len \in Nat
      /\ MaxLen \in Nat \ {0}
      /\ st = [out |-> st.out, cur |-> st.cur]
  BY KnowledgeAssumption DEF CutSoFar, TextSet
<1>2. IsCut(Flushed(st), content, 1, k)
  BY DEF CutSoFar
<1>3. Text(p, 0, len) \in TextSet /\ Text(p, 0, len).len = len
  <2>1. p \in Nat /\ 0 \in Nat /\ len \in Nat
    BY <1>1
  <2> HIDE DEF p, len
  <2>2. QED BY <2>1, TextType
<1>4. NoText \in TextSet /\ NoText.len = 0
  BY DEF NoText, TextSet
<1>5. ASSUME len <= MaxLen
      PROVE  IsCut(Flushed(st) \o <<Text(p, 0, len)>>, content, 1, p)
  <2>1. IsCut(<<Text(p, 0, len)>>, content, p, p)
    BY <1>1, <1>5, WholeIsCut
  <2>2. QED BY <1>2, <2>1, CutsConcatenate
<1>6. Flushed(st) \in Seq(TextSet)
  BY <1>2 DEF IsCut
<1>7. Flushed(st) \o <<Text(p, 0, len)>> = Append(Flushed(st), Text(p, 0, len))
  <2> DEFINE a == Flushed(st)
             t == Text(p, 0, len)
  <2>1. a \in Seq(TextSet) /\ t \in TextSet
    BY <1>3, <1>6
  <2> HIDE DEF a, t
  <2>2. a \o <<t>> = Append(a, t)
    BY <2>1
  <2>3. QED BY <2>2 DEF a, t
<1>8. CASE st.cur.len + len + 2 <= MaxLen
  <2> DEFINE j == Joined(st.cur, p, len)
             new == [out |-> st.out, cur |-> j]
  <2>1. TakeParagraph(st, p, len) = new
    <3>1. TakeParagraph(st, p, len) = [st EXCEPT !.cur = j]
      BY <1>1, <1>8 DEF TakeParagraph
    <3> HIDE DEF j
    <3>2. [st EXCEPT !.cur = j] = new
      BY <1>1
    <3>3. QED BY <3>1, <3>2
  <2>2. new.out = st.out /\ new.cur = j
    OBVIOUS
  <2>3. CASE st.cur.len = 0
    <3>1. j = Text(p, 0, len) /\ Flushed(st) = st.out
      BY <2>3 DEF Joined, Flushed
    <3> HIDE DEF new
    <3>2. Flushed(new) = Append(Flushed(st), Text(p, 0, len))
      BY <1>1, <1>3, <2>2, <3>1 DEF Flushed
    <3>3. len <= MaxLen
      BY <1>1, <1>8
    <3>4. IsCut(Flushed(new), content, 1, p)
      BY <1>5, <1>7, <3>2, <3>3
    <3>5. new \in [out : Seq(TextSet), cur : TextSet]
      BY <1>1, <1>3, <3>1 DEF new
    <3>6. QED BY <2>1, <3>4, <3>5 DEF CutSoFar
  <2>4. CASE st.cur.len # 0
    <3>1. Flushed(st) = Append(st.out, st.cur)
      BY <2>4 DEF Flushed
    <3>2. j \in TextSet /\ IsCut(Append(st.out, j), content, 1, p)
      BY <1>1, <1>2, <1>8, <2>4, <3>1, JoinedIsCut
    <3>3. j.len # 0
      BY <1>1, <2>4 DEF Joined
    <3> HIDE DEF j
    <3>4. new \in [out : Seq(TextSet), cur : TextSet]
      BY <1>1, <3>2
    <3> HIDE DEF new
    <3>5. Flushed(new) = Append(st.out, j)
      BY <2>2, <3>3 DEF Flushed
    <3>6. QED BY <2>1, <3>2, <3>4, <3>5 DEF CutSoFar
  <2>5. QED BY <2>3, <2>4
<1>9. CASE st.cur.len + len + 2 > MaxLen /\ len > MaxLen
  <2> DEFINE all == Flushed(st) \o Slices(p, len)
             new == [out |-> all, cur |-> NoText]
  <2>1. TakeParagraph(st, p, len) = new
    BY <1>1, <1>9 DEF TakeParagraph
  <2>2. IsCut(Slices(p, len), content, p, p)
    BY <1>1, <1>9, SlicesAreCut
  <2>3. IsCut(all, content, 1, p)
    BY <1>2, <2>2, CutsConcatenate
  <2>4. all \in Seq(TextSet)
    BY <2>3 DEF IsCut
  <2> HIDE DEF all
  <2>5. new.out = all /\ new.cur = NoText /\ new \in [out : Seq(TextSet), cur : TextSet]
    BY <1>4, <2>4
  <2> HIDE DEF new
  <2>6. Flushed(new) = all
    BY <1>4, <2>5 DEF Flushed
  <2>7. QED BY <2>1, <2>3, <2>5, <2>6 DEF CutSoFar
<1>10. CASE st.cur.len + len + 2 > MaxLen /\ ~(len > MaxLen)
  <2> DEFINE a == Flushed(st)
             t == Text(p, 0, len)
             new == [out |-> a, cur |-> t]
  <2>1. TakeParagraph(st, p, len) = new
    BY <1>1, <1>10 DEF TakeParagraph
  <2>2. IsCut(Append(a, t), content, 1, p)
    <3>1. len <= MaxLen
      BY <1>1, <1>10
    <3>2. IsCut(a \o <<t>>, content, 1, p)
      BY <1>5, <3>1
    <3>3. QED BY <1>7, <3>2
  <2>3. a \in Seq(TextSet) /\ t \in TextSet /\ t.len # 0
    BY <1>1, <1>3, <1>6
  <2> HIDE DEF a, t
  <2>4. new.out = a /\ new.cur = t /\ new \in [out : Seq(TextSet), cur : TextSet]
    BY <2>3
  <2> HIDE DEF new
  <2>5. Flushed(new) = Append(a, t)
    BY <2>3, <2>4 DEF Flushed
  <2>6. QED BY <2>1, <2>2, <2>4, <2>5 DEF CutSoFar
<1>11. QED BY <1>1, <1>8, <1>9, <1>10

(* The texts of a content are a cut of it.                                   *)
LEMMA SplitIsCut ==
  ASSUME NEW content \in Seq(Nat \ {0})
  PROVE  IsCut(Split(content), content, 1, Len(content))
<1> DEFINE cutting == Cutting(content)
           N == Len(content)
           Sound == {k \in Nat : k <= N => CutSoFar(cutting[k], content, k)}
<1>1. N \in Nat
  OBVIOUS
<1>2. Solves(cutting, content, N)
  BY <1>1, CuttingSolves
<1> HIDE DEF cutting, N
<1>3. \A n \in 0..N : cutting[n] = IF n = 0 THEN Begun
                                   ELSE TakeParagraph(cutting[n - 1], n, content[n])
  <2> DEFINE F(n) == IF n = 0 THEN Begun ELSE TakeParagraph(cutting[n - 1], n, content[n])
  <2>1. cutting = [n \in 0..N |-> F(n)]
    BY <1>2 DEF Solves
  <2> HIDE DEF F
  <2>2. \A n \in 0..N : cutting[n] = F(n)
    BY <2>1
  <2>3. QED BY <2>2 DEF F
<1>4. 0 \in Sound
  <2>1. cutting[0] = Begun
    BY <1>1, <1>3
  <2>2. Flushed(Begun) = <<>> /\ Begun \in [out : Seq(TextSet), cur : TextSet]
    BY DEF Begun, Flushed, NoText, TextSet
  <2>3. IsCut(<<>>, content, 0 + 1, 0)
    BY NothingIsCut
  <2>4. 0 + 1 = 1
    OBVIOUS
  <2>5. QED BY <2>1, <2>2, <2>3, <2>4 DEF CutSoFar
<1>5. ASSUME NEW k \in Nat, k \in Sound PROVE k + 1 \in Sound
  <2> SUFFICES ASSUME k + 1 <= N PROVE CutSoFar(cutting[k + 1], content, k + 1)
    OBVIOUS
  <2>1. CutSoFar(cutting[k], content, k)
    BY <1>1, <1>5
  <2>2. k + 1 \in 1..Len(content) /\ k + 1 \in 0..N /\ k + 1 # 0 /\ (k + 1) - 1 = k
    BY <1>1 DEF N
  <2>3. cutting[k + 1] = TakeParagraph(cutting[k], k + 1, content[k + 1])
    BY <1>3, <2>2
  <2>4. QED BY <2>1, <2>2, <2>3, ParagraphIsCut
<1>6. N \in Sound
  <2> HIDE DEF Sound
  <2>1. Nat \subseteq Sound
    BY <1>4, <1>5, NaturalsAreReached
  <2>2. QED BY <1>1, <2>1
<1>7. CutSoFar(cutting[N], content, N)
  BY <1>1, <1>6
<1>8. Split(content) = Flushed(cutting[N])
  BY DEF Split, cutting, N
<1>9. QED BY <1>7, <1>8 DEF CutSoFar, N

(* CutsNothingOff, for every content an administrator may write and every    *)
(* chunk length (splitContentToChunks): the texts fit, hold every character, *)
(* and hold each once and in order.                                          *)
THEOREM CutsNothingOffHolds == Spec => []CutsNothingOff
<1>1. KnowledgeInv => CutsNothingOff
  <2> SUFFICES ASSUME KnowledgeInv, NEW d \in Docs, Exists(d)
               PROVE  LET content == docs[d]  texts == Split(content) IN
        /\ \A n \in 1..Len(texts) :
             /\ texts[n].len <= MaxLen
             /\ \A i \in 1..Len(texts[n].pieces) : Within(texts[n].pieces[i], content)
        /\ \A p \in 1..Len(content) : \A c \in 0..(content[p] - 1) :
             \E n \in 1..Len(texts) : \E i \in 1..Len(texts[n].pieces) :
                HasChar(texts[n].pieces[i], p, c)
        /\ \A n, m \in 1..Len(texts) :
             \A i \in 1..Len(texts[n].pieces), j \in 1..Len(texts[m].pieces) :
               n < m \/ (n = m /\ i < j) => EndsBefore(texts[n].pieces[i], texts[m].pieces[j])
    BY DEF CutsNothingOff
  <2>1. docs[d] \in Seq(Nat \ {0})
    BY KnowledgeAssumption DEF KnowledgeInv, KnowledgeTypeOK, Exists
  <2>2. IsCut(Split(docs[d]), docs[d], 1, Len(docs[d]))
    BY <2>1, SplitIsCut
  <2>3. QED BY <2>2, Zenon DEF IsCut, FitWithin, Complete, InOrder, Indices
<1>2. QED
  BY <1>1, KnowledgeHolds, PTL
=============================================================================
