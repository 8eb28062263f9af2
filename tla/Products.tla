------------------------------ MODULE Products ------------------------------
(***************************************************************************)
(* modules/product and modules/file: the products table, the uploads on    *)
(* disk and the endpoints that write them.                                 *)
(*                                                                         *)
(* An action contains one SQL statement or one step on the file system.    *)
(* A request keeps in between what it has read (row) and what it is going  *)
(* to write (form).  Lookups do not see soft-deleted rows, the UNIQUE      *)
(* index on sku does.  Name, description, price and stock are written      *)
(* together and are one value, info.                                       *)
(***************************************************************************)
EXTENDS Paging, FiniteSets

CONSTANTS
    Requests,       \* requests that may be in flight together
    SKUs,
    Infos,          \* values of name, description, price and stock
    Files,          \* bound: names that Save hands out
    MaxRows,        \* bound: rows of products
    MaxCalls,       \* bound: requests served
    PageNumbers,    \* numbers and sizes of the pages that are asked for
    PageSizes

\* The empty string: a column without a value, a field the body leaves out.
Absent == ""

ASSUME ProductsAssumption ==
    /\ MaxRows \in Nat /\ MaxCalls \in Nat
    /\ Absent \notin SKUs \cup Infos \cup Files
    /\ PageNumbers \cup PageSizes \subseteq -MaxInt..MaxInt

VARIABLES
    product,        \* products, a function on the ids handed out
    file,           \* the state of each upload on disk
    req,            \* the local variables of each request
    calls           \* how many requests have been served

vars == <<product, file, req, calls>>

IDs == 1..MaxRows

\* The code treats PUBLISHED and ARCHIVED alike.
Statuses == {"DRAFT", "PUBLISHED"}

Row == [sku : SKUs, info : Infos, status : Statuses, image : Files \cup {Absent}, deleted : BOOLEAN]

\* A request body.  An empty status or image is an absent one.
Form == [sku : SKUs, info : Infos, status : Statuses \cup {Absent}, image : Files \cup {Absent}]

NoForm == [sku |-> Absent, info |-> Absent, status |-> Absent, image |-> Absent]
NoRow == [sku |-> Absent, info |-> Absent, status |-> Absent, image |-> Absent, deleted |-> FALSE]

\* "torn" is the part of an upload that a dead process has left.
FileStates == {"none", "partial", "torn", "stored"}

Steps == {"idle", "insert", "copy", "imageRead", "read", "skuCheck", "save", "delete", "find"}

\* A listing: the page, the filter on the status and what Count has returned.
Page == [page : 0..MaxInt, size : 1..MaxSize, status : Statuses \cup {Absent}, total : 0..MaxRows]
NoPage == [page |-> 0, size |-> 0, status |-> Absent, total |-> 0]

\* overtaken is a history field: the row was written after the request read it.
Request == [pc : Steps, op : {"none", "create", "update", "upload", "image", "delete", "search"},
            id : 0..MaxRows, form : Form \cup {NoForm}, row : Row \cup {NoRow},
            upload : Files \cup {Absent}, page : Page \cup {NoPage}, overtaken : BOOLEAN]

Idle == [pc |-> "idle", op |-> "none", id |-> 0, form |-> NoForm, row |-> NoRow,
         upload |-> Absent, page |-> NoPage, overtaken |-> FALSE]

-----------------------------------------------------------------------------
(* The table *)

LiveAny(id) == id \in DOMAIN product

\* GetByID and GetBySKU.
Live(id) == id \in DOMAIN product /\ ~product[id].deleted
BySKU(s) == {k \in DOMAIN product : Live(k) /\ product[k].sku = s}

\* The UNIQUE index; id is the row that may keep its SKU.
SKUFree(s, id) == \A k \in DOMAIN product : product[k].sku = s => k = id

NewID == Cardinality(DOMAIN product) + 1

\* The assignments of Update: an absent image or status is kept.
Apply(p, f) == [p EXCEPT !.sku = f.sku, !.info = f.info,
                         !.image = IF f.image = Absent THEN @ ELSE f.image,
                         !.status = IF f.status = Absent THEN @ ELSE f.status]

-----------------------------------------------------------------------------
(* Requests *)

At(r, pc) == req[r].pc = pc
Goto(r, q) == req' = [req EXCEPT ![r] = q]
Finish(r) == Goto(r, Idle)

Arrives(r) ==
    /\ At(r, "idle")
    /\ calls < MaxCalls
    /\ calls' = calls + 1

\* r has written row id, and everybody else who has read or counted it is
\* overtaken.
FinishWrite(r, id) ==
    req' = [s \in Requests |->
              IF s = r THEN Idle
              ELSE IF \/ req[s].id = id /\ req[s].pc \in {"read", "skuCheck", "save"}
                      \/ At(s, "find")
                   THEN [req[s] EXCEPT !.overtaken = TRUE]
                   ELSE req[s]]

\* An image is a URL that Save has returned, or none.
ImageURLs == {Absent} \cup {f \in Files : file[f] = "stored"}

\* Create: the lookup, which refuses a SKU in use, then the INSERT.
Create(r, f) ==
    /\ Arrives(r)
    /\ BySKU(f.sku) = {}
    /\ Goto(r, [Idle EXCEPT !.pc = "insert", !.op = "create", !.form = f])
    /\ UNCHANGED <<product, file>>

\* An absent status becomes DRAFT.
Insert(r) ==
    LET f == req[r].form
        new == Apply([NoRow EXCEPT !.status = "DRAFT"], f)
    IN /\ At(r, "insert")
       /\ IF SKUFree(f.sku, 0)
          THEN /\ NewID <= MaxRows
               /\ product' = [k \in DOMAIN product \cup {NewID} |->
                                IF k = NewID THEN new ELSE product[k]]
               /\ FinishWrite(r, NewID)
          ELSE Finish(r) /\ UNCHANGED product
       /\ UNCHANGED <<file, calls>>

\* service.Update from its first read on, for the request that q describes.
ReadRow(r, q) ==
    IF Live(q.id)
    THEN Goto(r, [q EXCEPT !.row = product[q.id],
                           !.pc = IF q.form.sku = product[q.id].sku THEN "save" ELSE "skuCheck"])
    ELSE Finish(r)

Update(r, id, f) ==
    /\ Arrives(r)
    /\ ReadRow(r, [Idle EXCEPT !.op = "update", !.id = id, !.form = f])
    /\ UNCHANGED <<product, file>>

SKUCheck(r) ==
    /\ At(r, "skuCheck")
    /\ IF BySKU(req[r].form.sku) \ {req[r].id} = {}
       THEN req' = [req EXCEPT ![r].pc = "save"]
       ELSE Finish(r)
    /\ UNCHANGED <<product, file, calls>>

SaveStatusAsSent(r) ==
    LET q == req[r]
    IN /\ At(r, "save")
       /\ SKUFree(q.form.sku, q.id)
       /\ product' = [product EXCEPT ![q.id] = [Apply(q.row, q.form) EXCEPT !.status = q.form.status]]
       /\ FinishWrite(r, q.id)
       /\ UNCHANGED <<file, calls>>

\* Save writes every column of the row that was read, deleted_at included: gorm
\* falls back to an upsert when the row has been deleted meanwhile.
Save(r) ==
    LET q == req[r]
    IN /\ At(r, "save")
       /\ IF SKUFree(q.form.sku, q.id)
          THEN /\ product' = [product EXCEPT ![q.id] = Apply(q.row, q.form)]
               /\ FinishWrite(r, q.id)
          ELSE Finish(r) /\ UNCHANGED product
       /\ UNCHANGED <<file, calls>>

Delete(r, id) ==
    /\ Arrives(r)
    /\ Live(id)
    /\ Goto(r, [Idle EXCEPT !.pc = "delete", !.op = "delete", !.id = id])
    /\ UNCHANGED <<product, file>>

SoftDelete(r) ==
    /\ At(r, "delete")
    /\ product' = [product EXCEPT ![req[r].id].deleted = TRUE]
    /\ FinishWrite(r, req[r].id)
    /\ UNCHANGED <<file, calls>>

-----------------------------------------------------------------------------
(* Listings *)

\* Of the filters the status stands for all.
Matches(status) == {k \in DOMAIN product : Live(k) /\ status \in {Absent, product[k].status}}

\* The rows of S behind k when they are ordered by id DESC.
Before(S, k) == Cardinality({j \in S : j > k})

\* OFFSET and LIMIT; gorm leaves out an offset that is not positive.
Slice(S, offset, limit) ==
    LET skip == IF offset > 0 THEN offset ELSE 0
    IN {k \in S : skip <= Before(S, k) /\ Before(S, k) < skip + limit}

\* The two statements of repository.Search: Count, then Find.
Search(r, n, size, status) ==
    LET p == Normalize([page |-> n, size |-> size, status |-> status,
                        total |-> Cardinality(Matches(status))])
    IN /\ Arrives(r)
       /\ Goto(r, [Idle EXCEPT !.pc = "find", !.op = "search", !.page = p])
       /\ UNCHANGED <<product, file>>

\* What Find finds is answered together with the total of Count.
Answer(r) ==
    LET p == req[r].page
    IN NewPage(p, p.total, Slice(Matches(p.status), Offset(p), p.size))

Find(r) ==
    /\ At(r, "find")
    /\ Finish(r)
    /\ UNCHANGED <<product, file, calls>>

-----------------------------------------------------------------------------
(* Uploads *)

\* Save of the file service up to the new, empty file.  Of the two endpoints
\* the one for product images goes on when the file is complete.
Upload(r, op, id, f) ==
    /\ Arrives(r)
    /\ file[f] = "none"
    /\ file' = [file EXCEPT ![f] = "partial"]
    /\ Goto(r, [Idle EXCEPT !.pc = "copy", !.op = op, !.id = id, !.upload = f])
    /\ UNCHANGED product

\* io.Copy has returned without an error.  The code ignores the error of the
\* deferred Close, so the copy counts as complete here as it does there.
CopyEnds(r) ==
    /\ At(r, "copy")
    /\ file' = [file EXCEPT ![req[r].upload] = "stored"]
    /\ IF req[r].op = "image" THEN req' = [req EXCEPT ![r].pc = "imageRead"] ELSE Finish(r)
    /\ UNCHANGED <<product, calls>>

CopyFailsIgnored(r) ==
    /\ At(r, "copy")
    /\ file' = [file EXCEPT ![req[r].upload] = "none"]
    /\ IF req[r].op = "image" THEN req' = [req EXCEPT ![r].pc = "imageRead"] ELSE Finish(r)
    /\ UNCHANGED <<product, calls>>

\* The file is removed, and its name was told to nobody.
CopyFails(r) ==
    /\ At(r, "copy")
    /\ file' = [file EXCEPT ![req[r].upload] = "none"]
    /\ Finish(r)
    /\ UNCHANGED <<product, calls>>

ImageReadDraft(r) ==
    LET q == req[r]
        p == product[q.id]
    IN /\ At(r, "imageRead")
       /\ IF Live(q.id)
          THEN Goto(r, [q EXCEPT !.pc = "read",
                   !.form = [sku |-> p.sku, info |-> p.info, status |-> "DRAFT", image |-> q.upload]])
          ELSE Finish(r)
       /\ UNCHANGED <<product, file, calls>>

\* GetByID: the answer becomes the form of an Update, with the new image.
ImageRead(r) ==
    LET q == req[r]
        p == product[q.id]
    IN /\ At(r, "imageRead")
       /\ IF Live(q.id)
          THEN Goto(r, [q EXCEPT !.pc = "read",
                   !.form = [sku |-> p.sku, info |-> p.info, status |-> p.status, image |-> q.upload]])
          ELSE Finish(r)
       /\ UNCHANGED <<product, file, calls>>

ImageUpdate(r) ==
    /\ At(r, "read")
    /\ ReadRow(r, req[r])
    /\ UNCHANGED <<product, file, calls>>

-----------------------------------------------------------------------------
(* Failures *)

\* A statement fails, or the client is gone and with it the context.
Lose(r) ==
    /\ req[r].pc \notin {"idle", "copy"}
    /\ Finish(r)
    /\ UNCHANGED <<product, file, calls>>

\* The process dies with everything it was doing.
Crash ==
    /\ \E r \in Requests : ~At(r, "idle")
    /\ req' = [r \in Requests |-> Idle]
    /\ file' = [f \in Files |-> IF file[f] = "partial" THEN "torn" ELSE file[f]]
    /\ UNCHANGED <<product, calls>>

-----------------------------------------------------------------------------
Init ==
    /\ product = [k \in {} |-> NoRow]
    /\ file = [f \in Files |-> "none"]
    /\ req = [r \in Requests |-> Idle]
    /\ calls = 0

Bodies == {f \in Form : f.image \in ImageURLs}

Arrive(r) ==
    \/ \E f \in Bodies : Create(r, f) \/ \E id \in IDs : Update(r, id, f)
    \/ \E f \in Files : Upload(r, "upload", 0, f) \/ \E id \in IDs : Upload(r, "image", id, f)
    \/ \E id \in IDs : Delete(r, id)
    \/ \E n \in PageNumbers, z \in PageSizes, st \in Statuses \cup {Absent} : Search(r, n, z, st)

Proceed(r) ==
    \/ Insert(r)
    \/ SKUCheck(r)
    \/ Save(r)
    \/ SoftDelete(r)
    \/ CopyEnds(r)
    \/ CopyFails(r)
    \/ ImageRead(r)
    \/ ImageUpdate(r)
    \/ Find(r)
    \/ Lose(r)

Next == (\E r \in Requests : Arrive(r) \/ Proceed(r)) \/ Crash

Spec == Init /\ [][Next]_vars

-----------------------------------------------------------------------------
\* Rows, files and the local variables of every request are well formed.
TypeOK ==
    /\ \E n \in 0..MaxRows : product \in [1..n -> Row]
    /\ file \in [Files -> FileStates]
    /\ req \in [Requests -> Request]
    /\ calls \in 0..MaxCalls

\* What a product shows, and what an upload is about to make it show, is a
\* complete file: Save returns a URL only after the copy, uploads never meet in
\* one name, and no failure of an upload removes or truncates a file in use.
ImagesAreStored ==
    /\ \A k \in DOMAIN product : product[k].image # Absent => file[product[k].image] = "stored"
    /\ \A r \in Requests :
        req[r].pc \in {"imageRead", "read", "skuCheck", "save"} /\ req[r].upload # Absent =>
            file[req[r].upload] = "stored"

\* An incomplete file is being written by exactly one request: only the death
\* of the process, not a failed copy, leaves one behind.
PartialFilesAreHeld ==
    \A f \in Files : file[f] = "partial" <=>
        Cardinality({r \in Requests : At(r, "copy") /\ req[r].upload = f}) = 1

\* Products never show an incomplete upload, and failed ones leave nothing.
UploadsAreSound == ImagesAreStored /\ PartialFilesAreHeld

\* What an endpoint promises to do to a row.
Effect(q, p) == IF q.op = "image" THEN [p EXCEPT !.image = q.upload] ELSE Apply(p, q.form)

\* A request that nobody overtook between its first read and its save changes
\* what its endpoint is for and nothing else, although Save writes every column
\* from two reads; an image upload touches only the image.
EditsAreExact ==
    [][\A r \in Requests :
         At(r, "save") /\ req'[r] = Idle /\ product' # product /\ ~req[r].overtaken =>
            product' = [product EXCEPT ![req[r].id] = Effect(req[r], @)]]_vars

\* A deleted product does not change, except by a save whose request read it
\* before the deletion: it is the one way back (there is no restore).
DeletedRowsAreFrozen ==
    [][\A k \in DOMAIN product : product[k].deleted =>
         \/ product'[k] = product[k]
         \/ \E r \in Requests : At(r, "save") /\ req[r].id = k /\ req[r].overtaken]_vars

\* The answer to a listing, with its page and size clamped and the total taken
\* by an earlier statement, agrees with the table: a row is on page n exactly
\* when n pages full of rows come before it, the last page is the one that no
\* row follows, and a page is empty when it lies behind the last.  The table
\* must not have been written in between, and the offset must be an int.
PagesAreExact ==
    \A r \in Requests :
        At(r, "find") /\ ~req[r].overtaken /\ req[r].page.page * req[r].page.size <= MaxInt =>
            LET p == req[r].page
                S == Matches(p.status)
                a == Answer(r)
            IN /\ a.content = {k \in S : Before(S, k) \div p.size = p.page}
               /\ a.last <=> \A k \in S : Before(S, k) < (p.page + 1) * p.size
               /\ a.empty <=> p.page >= a.totalPages
               /\ a.totalElements = Cardinality(S)
=============================================================================
