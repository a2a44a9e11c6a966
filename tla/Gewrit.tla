-------------------------------- MODULE Gewrit --------------------------------
(***************************************************************************)
(* Documents linked to assets and places: modules/gewrit/service.ts with   *)
(* its provider, whose documents are the truth.                            *)
(*                                                                         *)
(* The rows of a document and of its links are written in transactions of  *)
(* several statements.  What a transaction has written shows when it       *)
(* commits; until then it holds the document's row and keeps others off    *)
(* the link it deletes.  A row of gewrit_documents is named by its         *)
(* external id.                                                            *)
(***************************************************************************)
EXTENDS Integers, FiniteSets

CONSTANTS Docs,      \* documents, by external id
          Elements, Roles,
          LinkIds,   \* bound: rows of gewrit_links
          Procs,     \* requests in flight
          NONE

VARIABLES paperless,  \* the documents the provider returns
          elements,   \* assets and places there are
          docs,       \* gewrit_documents: status, and the ages of last_seen_at and updated_at
          links,      \* gewrit_links
          job         \* what each request is doing

gewritVars == <<paperless, elements, docs, links, job>>
-----------------------------------------------------------------------------
NoJob    == [op |-> NONE]
DocRows  == DOMAIN docs
LinkRows == DOMAIN links

Row(status) == [status |-> status, due |-> FALSE, old |-> FALSE]

TypeOK ==
  /\ paperless \subseteq Docs /\ elements \subseteq Elements
  /\ DocRows \subseteq Docs
  /\ \A d \in DocRows : docs[d] \in [status : {"available", "missing"}, due : BOOLEAN, old : BOOLEAN]
  /\ LinkRows \subseteq LinkIds
  /\ \A l \in LinkRows : /\ links[l].doc \in DocRows /\ links[l].element \in elements
                         /\ links[l].role \in Roles
  /\ \A l, k \in LinkRows : links[l] = links[k] => l = k
  /\ \A p \in Procs : job[p] = NoJob \/ job[p].pc \in
       {"element", "ask", "upsert", "insert", "read", "lock", "delete", "last", "sweep", "list", "refresh"}

Init == /\ paperless = Docs /\ elements = Elements
        /\ docs = <<>> /\ links = <<>>
        /\ job = [p \in Procs |-> NoJob]
-----------------------------------------------------------------------------
Becomes(p, j) == job' = [job EXCEPT ![p] = j]
Answers(p)    == Becomes(p, NoJob)
GoesTo(p, pc) == Becomes(p, [job[p] EXCEPT !.pc = pc])
At(p, pc)     == job[p] # NoJob /\ job[p].pc = pc

LinksOf(d) == {l \in LinkRows : links[l].doc = d}

(* Seeded fault: the link is deleted before its document is locked. *)
LinkFirst == [read |-> "delete", delete |-> "lock", lock |-> "last"]

(* deleteLink: what follows each of its statements. *)
DocumentFirst == [read |-> "lock", lock |-> "delete", delete |-> "last"]

(* The transactions that hold a document's row, and one that deletes a link. *)
Holds(p, d)   == job[p] # NoJob /\ job[p].op \in {"createLink", "deleteLink"} /\ job[p].locked = {d}
Free(p, d)    == \A q \in Procs \ {p} : ~Holds(q, d)
Deletes(p, l) == job[p] # NoJob /\ job[p].op = "deleteLink" /\ job[p].deleted = {l}
Spared(p, l)  == \A q \in Procs \ {p} : ~Deletes(q, l)

(* Seeded fault: no unique index. *)
NoRivals(new) == {l \in LinkRows : links[l] = new /\ \E p \in Procs : Deletes(p, l)}

(* The rows a link's unique index would compare with it. *)
Rivals(new) == {l \in LinkRows : links[l] = new}

WithLink(id, new) == [l \in LinkRows \cup {id} |-> IF l = id THEN new ELSE links[l]]
WithoutLinks(S)   == [l \in LinkRows \ S |-> links[l]]
WithDoc(d, row)   == [c \in DocRows \cup {d} |-> IF c = d THEN row ELSE docs[c]]
WithoutDoc(d)     == [c \in DocRows \ {d} |-> docs[c]]
-----------------------------------------------------------------------------
StartCreate(p, d, e, r) ==
  /\ job[p] = NoJob
  /\ Becomes(p, [op |-> "createLink", pc |-> "element", locked |-> {},
                 new |-> [doc |-> d, element |-> e, role |-> r]])
  /\ UNCHANGED <<paperless, elements, docs, links>>

CheckElement(p) ==
  /\ At(p, "element")
  /\ IF job[p].new.element \in elements THEN GoesTo(p, "ask") ELSE Answers(p)
  /\ UNCHANGED <<paperless, elements, docs, links>>

(* getMany: the document, nothing, or an error of the provider. *)
AskProvider(p) ==
  /\ At(p, "ask")
  /\ \/ job[p].new.doc \in paperless /\ GoesTo(p, "upsert")
     \/ Answers(p)
  /\ UNCHANGED <<paperless, elements, docs, links>>

Upsert(p) ==
  /\ At(p, "upsert") /\ Free(p, job[p].new.doc)
  /\ Becomes(p, [job[p] EXCEPT !.pc = "insert", !.locked = {job[p].new.doc}])
  /\ UNCHANGED <<paperless, elements, docs, links>>

(* The link, and the commit of both rows; or neither (23505, 23503). *)
InsertLink(p) ==
  /\ At(p, "insert")
  /\ LET new == job[p].new
     IN  /\ \A l \in Rivals(new) : Spared(p, l)
         /\ IF Rivals(new) = {} /\ new.element \in elements
            THEN /\ docs' = WithDoc(new.doc, Row("available"))
                 /\ \E id \in LinkIds \ LinkRows :
                      /\ \A q \in Procs : job[q] # NoJob /\ job[q].op = "deleteLink" => job[q].link # id
                      /\ links' = WithLink(id, new)
            ELSE UNCHANGED <<docs, links>>
  /\ Answers(p)
  /\ UNCHANGED <<paperless, elements>>
-----------------------------------------------------------------------------
StartDelete(p, l) ==
  /\ job[p] = NoJob
  /\ Becomes(p, [op |-> "deleteLink", pc |-> "read", link |-> l, doc |-> NONE,
                 locked |-> {}, deleted |-> {}])
  /\ UNCHANGED <<paperless, elements, docs, links>>

ReadLink(p) ==
  /\ At(p, "read")
  /\ IF job[p].link \in LinkRows
     THEN Becomes(p, [job[p] EXCEPT !.pc = DocumentFirst["read"], !.doc = links[job[p].link].doc])
     ELSE Answers(p)
  /\ UNCHANGED <<paperless, elements, docs, links>>

LockDocument(p) ==
  /\ At(p, "lock") /\ Free(p, job[p].doc)
  /\ Becomes(p, [job[p] EXCEPT !.pc = DocumentFirst["lock"],
                               !.locked = {job[p].doc} \cap DocRows])
  /\ UNCHANGED <<paperless, elements, docs, links>>

DeleteLinkRow(p) ==
  /\ At(p, "delete") /\ Spared(p, job[p].link)
  /\ IF job[p].link \in LinkRows
     THEN Becomes(p, [job[p] EXCEPT !.pc = DocumentFirst["delete"], !.deleted = {job[p].link}])
     ELSE Answers(p)
  /\ UNCHANGED <<paperless, elements, docs, links>>

(* The document goes with its last link: NOT EXISTS in a statement of its own. *)
DropDocument(p) ==
  /\ At(p, "last")
  /\ LET d == job[p].doc
         last == LinksOf(d) \subseteq job[p].deleted
     IN  /\ links' = WithoutLinks(job[p].deleted)
         /\ docs' = IF last THEN WithoutDoc(d) ELSE docs
  /\ Answers(p)
  /\ UNCHANGED <<paperless, elements>>

(* updateLink: one statement, which waits for a rival that is being deleted. *)
updateLink(l, r) ==
  /\ l \in LinkRows
  /\ LET new == [links[l] EXCEPT !.role = r]
     IN  /\ \A q \in Procs : \A k \in Rivals(new) \cup {l} : ~Deletes(q, k)
         /\ \A q \in Procs : ~(At(q, "insert") /\ job[q].new = new)
         /\ Rivals(new) \subseteq {l}
         /\ links' = WithLink(l, new)
  /\ UNCHANGED <<paperless, elements, docs, job>>
-----------------------------------------------------------------------------
(* sweepOrphans, with the snapshot its one DELETE starts from. *)
StartList(p, e) ==
  /\ job[p] = NoJob /\ e \in elements
  /\ Becomes(p, [op |-> "list", pc |-> "sweep", element |-> e,
                 orphans |-> {d \in DocRows : LinksOf(d) = {} /\ docs[d].old}])
  /\ UNCHANGED <<paperless, elements, docs, links>>

(* Seeded fault: the row that was waited for is not looked at again. *)
StillOldUnchecked(d) == d \in DocRows

(* A row that was waited for is judged again, by its new version. *)
StillOld(d) == d \in DocRows /\ docs[d].old

(* The row goes, and by cascade what links it by now. *)
SweepOrphan(p) ==
  /\ At(p, "sweep") /\ job[p].orphans # {}
  /\ \E d \in job[p].orphans :
       /\ Free(p, d)
       /\ IF StillOld(d) THEN docs' = WithoutDoc(d) /\ links' = WithoutLinks(LinksOf(d))
          ELSE UNCHANGED <<docs, links>>
       /\ Becomes(p, [job[p] EXCEPT !.orphans = @ \ {d}])
  /\ UNCHANGED <<paperless, elements>>

(* linkRows: the documents to refresh. *)
ReadRows(p) ==
  /\ At(p, "sweep") /\ job[p].orphans = {}
  /\ LET due == {d \in DocRows : docs[d].due /\ \E l \in LinksOf(d) : links[l].element = job[p].element}
     IN  IF due = {} THEN Answers(p)
         ELSE Becomes(p, [op |-> "list", pc |-> "list", due |-> due])
  /\ UNCHANGED <<paperless, elements, docs, links>>

(* refresh: what the provider returns, or its error, which leaves the rows alone. *)
AskMany(p) ==
  /\ At(p, "list")
  /\ \/ Becomes(p, [op |-> "list", pc |-> "refresh", due |-> job[p].due,
                    found |-> job[p].due \cap paperless])
     \/ Answers(p)
  /\ UNCHANGED <<paperless, elements, docs, links>>

Refreshed(d, found) ==
  IF d \in found THEN Row("available") ELSE [docs[d] EXCEPT !.status = "missing", !.old = FALSE]

RefreshRow(p) ==
  /\ At(p, "refresh")
  /\ \E d \in job[p].due :
       /\ Free(p, d)
       /\ docs' = IF d \in DocRows THEN WithDoc(d, Refreshed(d, job[p].found)) ELSE docs
       /\ IF job[p].due = {d} THEN Answers(p) ELSE Becomes(p, [job[p] EXCEPT !.due = @ \ {d}])
  /\ UNCHANGED <<paperless, elements, links>>

(* A preview the provider answers with not_found. *)
markMissing(d) ==
  /\ d \in DocRows \ paperless /\ LinksOf(d) # {}
  /\ \A p \in Procs : Free(p, d)
  /\ docs' = WithDoc(d, [docs[d] EXCEPT !.status = "missing", !.old = FALSE])
  /\ UNCHANGED <<paperless, elements, links, job>>
-----------------------------------------------------------------------------
(* Ethel deletes an element, which waits for links of it that are being deleted. *)
DeleteElement(e) ==
  LET its == {l \in LinkRows : links[l].element = e}
  IN  /\ e \in elements
      /\ \A p \in Procs : \A l \in its : ~Deletes(p, l)
      /\ elements' = elements \ {e}
      /\ links' = WithoutLinks(its)
      /\ UNCHANGED <<paperless, docs, job>>

CreateElement(e) ==
  /\ e \notin elements
  /\ elements' = elements \cup {e}
  /\ UNCHANGED <<paperless, docs, links, job>>

ProviderChanges(d) ==
  /\ paperless' \in {paperless \cup {d}, paperless \ {d}}
  /\ UNCHANGED <<elements, docs, links, job>>

(* Bound: no request takes an hour. *)
TimePasses ==
  /\ \E aged \in BOOLEAN :
       /\ aged => \A p \in Procs : job[p] = NoJob
       /\ docs' = [d \in DocRows |-> [docs[d] EXCEPT !.due = TRUE, !.old = @ \/ aged]]
  /\ UNCHANGED <<paperless, elements, links, job>>

(* Requests die, their transactions roll back. *)
Crash == /\ \E p \in Procs : job[p] # NoJob
         /\ job' = [p \in Procs |-> NoJob]
         /\ UNCHANGED <<paperless, elements, docs, links>>

Works(p) ==
  \/ CheckElement(p) \/ AskProvider(p) \/ Upsert(p) \/ InsertLink(p)
  \/ ReadLink(p) \/ LockDocument(p) \/ DeleteLinkRow(p) \/ DropDocument(p)
  \/ SweepOrphan(p) \/ ReadRows(p) \/ AskMany(p) \/ RefreshRow(p)

Requests(p) ==
  \/ \E d \in Docs, e \in Elements, r \in Roles : StartCreate(p, d, e, r)
  \/ \E l \in LinkRows : StartDelete(p, l)
  \/ \E e \in Elements : StartList(p, e)

Next ==
  \/ \E p \in Procs : Requests(p) \/ Works(p)
  \/ \E l \in LinkRows, r \in Roles : updateLink(l, r)
  \/ \E d \in Docs : markMissing(d) \/ ProviderChanges(d)
  \/ \E e \in Elements : CreateElement(e) \/ DeleteElement(e)
  \/ TimePasses
  \/ Crash

Spec == Init /\ [][Next]_gewritVars
-----------------------------------------------------------------------------
(* A link a member made goes by a member's deleteLink or with its element: the  *)
(* orphan sweep and the removal of a document with its last link never cascade   *)
(* away a link that was committed meanwhile (service.ts:101-106, 219-221).       *)
KeptStep ==
  \A l \in LinkRows :
    l \notin DOMAIN links' => \/ links[l].element \notin elements'
                              \/ \E p \in Procs : At(p, "last") /\ job[p].link = l /\ job'[p] = NoJob

LinksKept == [][KeptStep]_gewritVars

(* Whom a request waits for. *)
WaitsFor(p) ==
  CASE At(p, "upsert") -> {q \in Procs \ {p} : Holds(q, job[p].new.doc)}
    [] At(p, "lock")   -> {q \in Procs \ {p} : Holds(q, job[p].doc)}
    [] At(p, "insert") -> {q \in Procs \ {p} : \E l \in Rivals(job[p].new) : Deletes(q, l)}
    [] At(p, "delete") -> {q \in Procs \ {p} : Deletes(q, job[p].link)}
    [] At(p, "sweep")  -> {q \in Procs \ {p} : \E d \in job[p].orphans : Holds(q, d)}
    [] OTHER           -> {}

(* No requests wait for one another in a circle ("Deleting the link first would *)
(* deadlock against a concurrent relink", service.ts:215-218).                  *)
NoDeadlock == \A S \in SUBSET Procs : S # {} => \E p \in S : WaitsFor(p) \cap S = {}
=============================================================================
