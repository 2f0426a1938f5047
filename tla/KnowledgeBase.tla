---------------------------- MODULE KnowledgeBase ----------------------------
(***************************************************************************)
(* Knowledge documents and the chunks retrieval searches.  Editing a        *)
(* document leaves its chunks alone; an administrator reindexes it, which    *)
(* deletes the chunks and writes the new ones statement by statement.  A     *)
(* content is the sequence of the lengths of its paragraphs.                 *)
(***************************************************************************)
EXTENDS Integers, SequencesExt

CONSTANTS Docs, Contents,
          MaxLen,   \* DEFAULT_CHUNK
          Requests, \* administrators' requests in progress
          Unborn, Deleted,
          MaxChunks \* bound on the chunk rows

ASSUME KnowledgeAssumption ==
    /\ MaxLen \in Nat \ {0} /\ MaxChunks \in Nat
    /\ Contents \subseteq Seq(Nat \ {0}) /\ {Unborn, Deleted} \cap Contents = {}
    /\ Unborn \notin Docs /\ Unborn # Deleted

VARIABLES docs,   \* the knowledge_documents rows: document -> content
          chunks, \* the knowledge_chunks rows by their id: document, index, text
          work    \* what each request is doing

knowledgeVars == <<docs, chunks, work>>

-----------------------------------------------------------------------------
(* splitContentToChunks.  A piece is part of a paragraph: which, from where, *)
(* how long.  A text is its length and its pieces; two characters join them. *)
Piece(p, from, len) == [par |-> p, from |-> from, len |-> len]

NoText == [len |-> 0, pieces |-> <<>>]
Text(p, from, len) == [len |-> len, pieces |-> <<Piece(p, from, len)>>]

Joined(text, p, len) ==
    IF text.len = 0 THEN Text(p, 0, len)
    ELSE [len |-> text.len + 2 + len, pieces |-> Append(text.pieces, Piece(p, 0, len))]

Slices(p, len) ==
    [i \in 1..((len + MaxLen - 1) \div MaxLen) |->
       LET from == (i - 1) * MaxLen IN
       Text(p, from, IF i * MaxLen > len THEN len - from ELSE MaxLen)]

LastLost(st) == st.out
Flushed(st) == IF st.cur.len = 0 THEN st.out ELSE Append(st.out, st.cur)

TakeParagraph(st, p, len) ==
    CASE st.cur.len + len + 2 <= MaxLen -> [st EXCEPT !.cur = Joined(@, p, len)]
      [] st.cur.len + len + 2 > MaxLen /\ len > MaxLen ->
           [out |-> Flushed(st) \o Slices(p, len), cur |-> NoText]
      [] OTHER -> [out |-> Flushed(st), cur |-> Text(p, 0, len)]

(* The texts cut off and the text in hand after each paragraph. *)
Cutting(content) ==
    LET after[n \in 0..Len(content)] ==
          IF n = 0 THEN [out |-> <<>>, cur |-> NoText]
          ELSE TakeParagraph(after[n - 1], n, content[n])
    IN after

Split(content) == Flushed(Cutting(content)[Len(content)])

-----------------------------------------------------------------------------
(* alone: no other request has been at the document since this one began;   *)
(* intact: no other has deleted its chunks since this one did.              *)
NoWork == [at |-> "idle", doc |-> Unborn, content |-> <<>>, next |-> 0,
           alone |-> TRUE, intact |-> TRUE]

Work == [at : {"idle", "clear", "write", "indexed", "unindex", "remove"},
         doc : Docs \cup {Unborn}, content : Contents \cup {<<>>}, next : Nat,
         alone : BOOLEAN, intact : BOOLEAN]

KnowledgeTypeOK ==
    /\ docs \in [Docs -> Contents \cup {Unborn, Deleted}]
    /\ DOMAIN chunks \subseteq 1..MaxChunks
    /\ \A i \in DOMAIN chunks : chunks[i].doc \in Docs /\ chunks[i].index \in Nat
    /\ work \in [Requests -> Work]

KnowledgeInit ==
    /\ docs = [d \in Docs |-> Unborn]
    /\ chunks = <<>>
    /\ work = [q \in Requests |-> NoWork]

Exists(d) == docs[d] \notin {Unborn, Deleted}
Busy(q) == work[q].at # "idle"

(* POST and PUT of a document. *)
WriteDocument ==
    /\ \E d \in Docs, c \in Contents : docs[d] # Deleted /\ docs' = [docs EXCEPT ![d] = c]
    /\ UNCHANGED <<chunks, work>>

(* A request begins on document d with the given first step. *)
BeginRequest(q, d, first, content) ==
    /\ ~Busy(q)
    /\ Exists(d)
    /\ work' = [p \in Requests |->
         IF p = q THEN [NoWork EXCEPT !.at = first, !.doc = d, !.content = content,
                          !.alone = \A o \in Requests : ~(Busy(o) /\ work[o].doc = d)]
         ELSE [work[p] EXCEPT !.alone = @ /\ work[p].doc # d]]
    /\ UNCHANGED <<docs, chunks>>

StartReindex(q, d) == BeginRequest(q, d, "clear", docs[d])
StartDelete(q, d) == BeginRequest(q, d, "unindex", <<>>)

RowsOf(d) == {i \in DOMAIN chunks : chunks[i].doc = d}
EveryRow(d) == chunks
Others(d) == Restrict(chunks, DOMAIN chunks \ RowsOf(d))

(* deleteMany of the document's chunks, by either request. *)
ClearChunks(q) ==
    /\ work[q].at \in {"clear", "unindex"}
    /\ chunks' = Others(work[q].doc)
    /\ work' = [p \in Requests |->
         IF p = q THEN [work[q] EXCEPT !.at = IF work[q].at = "clear" THEN "write" ELSE "remove",
                                       !.intact = TRUE]
         ELSE [work[p] EXCEPT !.intact = @ /\ work[p].doc # work[q].doc]]
    /\ UNCHANGED docs

(* One create per chunk; the foreign key refuses it once the document is    *)
(* gone, and the request fails.  With or without embeddings all are written. *)
FreeIds == 1..MaxChunks \ DOMAIN chunks

WriteChunk(q) ==
    LET w == work[q]
        texts == Split(w.content)
        id == CHOOSE i \in FreeIds : TRUE
    IN /\ w.at = "write"
       /\ Exists(w.doc)
       /\ w.next < Len(texts)
       /\ FreeIds # {}
       /\ chunks' = [i \in DOMAIN chunks \cup {id} |->
            IF i = id THEN [doc |-> w.doc, index |-> w.next, text |-> texts[w.next + 1]]
            ELSE chunks[i]]
       /\ work' = [work EXCEPT ![q].next = @ + 1]
       /\ UNCHANGED docs

FinishReindex(q) ==
    /\ work[q].at = "write"
    /\ work[q].next = Len(Split(work[q].content))
    /\ work' = [work EXCEPT ![q].at = "indexed"]
    /\ UNCHANGED <<docs, chunks>>

(* The row goes, and its chunks with it (onDelete: Cascade). *)
Cascade(d) == Others(d)

RemoveDocument(q) ==
    /\ work[q].at = "remove"
    /\ Exists(work[q].doc)
    /\ docs' = [docs EXCEPT ![work[q].doc] = Deleted]
    /\ chunks' = Cascade(work[q].doc)
    /\ work' = [work EXCEPT ![q] = NoWork]

(* The answer is sent, or a statement fails or the server stops half way:   *)
(* what was written stays.                                                  *)
RequestEnds(q) ==
    /\ Busy(q)
    /\ work' = [work EXCEPT ![q] = NoWork]
    /\ UNCHANGED <<docs, chunks>>

KnowledgeNext ==
    \/ WriteDocument
    \/ \E q \in Requests :
         \/ \E d \in Docs : StartReindex(q, d) \/ StartDelete(q, d)
         \/ ClearChunks(q) \/ WriteChunk(q) \/ FinishReindex(q) \/ RemoveDocument(q)
         \/ RequestEnds(q)

-----------------------------------------------------------------------------
(* A reindex that ends has left a row for every text of the content it read, *)
(* unless another request cleared them after it did; and if it had the       *)
(* document to itself, one row for each and nothing else                     *)
(* (knowledge-chunk.service.ts:35-68).                                       *)
Holds(d, index, text) == \E i \in RowsOf(d) : chunks[i].index = index /\ chunks[i].text = text

ReindexLosesNothing ==
    \A q \in Requests : LET w == work[q]  texts == Split(w.content) IN
      w.at = "indexed" /\ w.intact /\ Exists(w.doc) =>
        /\ \A n \in 1..Len(texts) : Holds(w.doc, n - 1, texts[n])
        /\ w.alone => /\ \A i \in RowsOf(w.doc) : chunks[i].index < Len(texts)
                      /\ \A i, j \in RowsOf(w.doc) : chunks[i].index = chunks[j].index => i = j

(* The texts a content is cut into fit, hold every character of it, and hold *)
(* each once: read on from text to text and piece to piece, they run through *)
(* the paragraphs in order and repeat nothing                                *)
(* (knowledge-chunk.service.ts:8-33).                                        *)
HasChar(x, p, c) == x.par = p /\ x.from <= c /\ c < x.from + x.len
Within(x, content) ==
    /\ x.par \in 1..Len(content)
    /\ x.from >= 0 /\ x.from + x.len <= content[x.par]
EndsBefore(x, y) == x.par < y.par \/ (x.par = y.par /\ x.from + x.len <= y.from)

CutsNothingOff ==
    \A d \in Docs : Exists(d) =>
      LET content == docs[d]  texts == Split(content) IN
      /\ \A n \in 1..Len(texts) :
           /\ texts[n].len <= MaxLen
           /\ \A i \in 1..Len(texts[n].pieces) : Within(texts[n].pieces[i], content)
      /\ \A p \in 1..Len(content) : \A c \in 0..(content[p] - 1) :
           \E n \in 1..Len(texts) : \E i \in 1..Len(texts[n].pieces) :
              HasChar(texts[n].pieces[i], p, c)
      /\ \A n, m \in 1..Len(texts) :
           \A i \in 1..Len(texts[n].pieces), j \in 1..Len(texts[m].pieces) :
             n < m \/ (n = m /\ i < j) => EndsBefore(texts[n].pieces[i], texts[m].pieces[j])
=============================================================================
