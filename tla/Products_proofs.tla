-------------------------- MODULE Products_proofs --------------------------
(***************************************************************************)
(* Products for any number of requests, rows, files and pages.  The two    *)
(* action properties and the answers of listings rest on one idea: a       *)
(* request that nobody has overtaken still holds what the table holds.     *)
(***************************************************************************)
EXTENDS Products, FiniteSetTheorems, TLAPS

\* The steps of service.Update behind its first read.
Editing == {"skuCheck", "save"}

Stored(i) == i # Absent => file[i] = "stored"

\* What a request may rely on at each of its steps: the row that it names
\* exists, and what it read or was sent shows complete files only.
LocalsOK(q) ==
    /\ q.pc \in {"insert", "read", "skuCheck", "save"} => q.form \in Form /\ Stored(q.form.image)
    /\ q.pc \in Editing => q.row \in Row /\ ~q.row.deleted /\ Stored(q.row.image)
    /\ q.pc \in {"skuCheck", "save", "delete"} => q.id \in DOMAIN product
    /\ q.pc = "copy" => q.upload # Absent /\ file[q.upload] = "partial"
    /\ q.pc \in {"imageRead", "read"} => q.op = "image"
    /\ q.op = "image" => q.upload # Absent
    /\ q.pc \in {"imageRead", "read", "skuCheck", "save"} => Stored(q.upload)

\* The form that an image upload makes of row p.
ImageForm(p, f) == [sku |-> p.sku, info |-> p.info, status |-> p.status, image |-> f]

\* A request that nobody has overtaken still holds what the table holds.
CurrentOK(q) ==
    ~q.overtaken =>
        /\ q.pc \in Editing => product[q.id] = q.row
        /\ q.pc \in {"read", "skuCheck", "save"} /\ q.op = "image" =>
            q.id \in DOMAIN product /\ q.form = ImageForm(product[q.id], q.upload)
        /\ q.pc = "find" => q.page \in Page /\ q.page.total = Cardinality(Matches(q.page.status))

RowsOK == \A k \in DOMAIN product : Stored(product[k].image)

\* Two uploads never write one file, and every incomplete one is being written.
CopiesOK ==
    /\ \A r, s \in Requests :
         At(r, "copy") /\ At(s, "copy") /\ req[r].upload = req[s].upload => r = s
    /\ \A f \in Files : file[f] = "partial" => \E r \in Requests : At(r, "copy") /\ req[r].upload = f

LocalsAllOK == \A r \in Requests : LocalsOK(req[r]) /\ CurrentOK(req[r])

ProductsInv == TypeOK /\ RowsOK /\ CopiesOK /\ LocalsAllOK

LEMMA Bounds ==
    /\ MaxRows \in Nat /\ MaxCalls \in Nat /\ MaxInt \in Nat
    /\ MaxSize \in Nat \ {0} /\ DefaultSize \in 1..MaxSize /\ MaxSize <= MaxInt
    /\ Absent \notin SKUs /\ Absent \notin Infos /\ Absent \notin Files
    /\ Absent # "DRAFT" /\ Absent # "PUBLISHED"
<1>1. MaxRows \in Nat /\ MaxCalls \in Nat
  BY ProductsAssumption, Zenon
<1>2. Absent \notin SKUs /\ Absent \notin Infos /\ Absent \notin Files
  BY ProductsAssumption, Zenon
<1>3. Absent # "DRAFT" /\ Absent # "PUBLISHED"
  BY Zenon DEF Absent
<1> QED BY <1>1, <1>2, <1>3, PagingAssumption

USE Bounds

-----------------------------------------------------------------------------
(* Types *)

\* Ids are handed out in order, so the next one is free.
LEMMA TableTyped ==
    ASSUME TypeOK
    PROVE  /\ \A k \in DOMAIN product : product[k] \in Row /\ k \in 1..MaxRows
           /\ IsFiniteSet(DOMAIN product)
           /\ NewID \in 1..(MaxRows + 1) /\ NewID \notin DOMAIN product
           /\ DOMAIN product = 1..(NewID - 1)
<1>1. PICK n \in 0..MaxRows : product \in [1..n -> Row]
  BY DEF TypeOK
<1>2. DOMAIN product = 1..n /\ n \in Nat /\ n <= MaxRows
  BY <1>1
<1>3. IsFiniteSet(1..n) /\ Cardinality(1..n) = n
  BY <1>2, FS_Interval
<1>4. NewID = n + 1
  BY <1>2, <1>3 DEF NewID
<1> QED BY <1>1, <1>2, <1>3, <1>4

LEMMA IdleOK == Idle \in Request /\ LocalsOK(Idle) /\ CurrentOK(Idle) /\ Idle.pc = "idle"
<1>1. Idle \in Request
  BY DEF Idle, Request, Steps
<1> QED BY <1>1 DEF Idle, LocalsOK, CurrentOK, Editing

\* The count of a listing cannot exceed the table.
LEMMA MatchesCounted ==
    ASSUME TypeOK, NEW st
    PROVE  IsFiniteSet(Matches(st)) /\ Cardinality(Matches(st)) \in 0..MaxRows
<1>1. Matches(st) \subseteq 1..MaxRows
  BY TableTyped DEF Matches
<1>2. IsFiniteSet(1..MaxRows) /\ Cardinality(1..MaxRows) = MaxRows
  BY FS_Interval
<1>3. IsFiniteSet(Matches(st)) /\ Cardinality(Matches(st)) <= MaxRows
  BY <1>1, <1>2, FS_Subset
<1> QED BY <1>3, FS_CardinalityType

-----------------------------------------------------------------------------
(* The kinds of steps *)

\* Request r moves on, and neither the table nor the disk changes.
LEMMA GotoStep ==
    ASSUME ProductsInv, NEW r \in Requests, NEW q, Goto(r, q),
           req[r].pc # "copy", q.pc # "copy",
           q \in Request, LocalsOK(q), CurrentOK(q),
           UNCHANGED <<product, file>>, calls' \in 0..MaxCalls
    PROVE  ProductsInv'
<1>1. req \in [Requests -> Request]
  BY DEF ProductsInv, TypeOK
<1>2. req' \in [Requests -> Request] /\ req'[r] = q /\ \A s \in Requests : s # r => req'[s] = req[s]
  BY <1>1 DEF Goto
<1>3. TypeOK'
  BY <1>2 DEF ProductsInv, TypeOK
<1>4. RowsOK'
  BY DEF ProductsInv, RowsOK, Stored
<1>5. CopiesOK'
  BY <1>2 DEF ProductsInv, CopiesOK, At
<1>6. ASSUME NEW s \in Requests PROVE LocalsOK(req'[s]) /\ CurrentOK(req'[s])
  BY <1>2 DEF ProductsInv, LocalsAllOK
<1>7. LocalsAllOK'
  BY <1>6 DEF LocalsAllOK, LocalsOK, CurrentOK, Stored, Matches, Live
<1> QED BY <1>3, <1>4, <1>5, <1>7 DEF ProductsInv

\* Request r writes row id: whoever holds something of it is marked.
LEMMA WriteStep ==
    ASSUME ProductsInv, NEW r \in Requests, NEW id, FinishWrite(r, id), req[r].pc # "copy",
           \E n \in 0..MaxRows : product' \in [1..n -> Row],
           DOMAIN product \subseteq DOMAIN product',
           \A k \in DOMAIN product : k # id => product'[k] = product[k],
           RowsOK', UNCHANGED <<file, calls>>
    PROVE  ProductsInv'
<1> DEFINE marked(q) == [q EXCEPT !.overtaken = TRUE]
<1>1. req \in [Requests -> Request]
  BY DEF ProductsInv, TypeOK
<1>2. ASSUME NEW q \in Request
      PROVE  /\ marked(q) \in Request /\ marked(q).overtaken
             /\ marked(q).pc = q.pc /\ marked(q).upload = q.upload /\ marked(q).op = q.op
             /\ marked(q).id = q.id /\ marked(q).form = q.form /\ marked(q).row = q.row
  BY <1>2 DEF Request
<1> HIDE DEF marked
<1>3. ASSUME NEW s \in Requests, s # r
      PROVE  \/ /\ req'[s] = marked(req[s])
                /\ req[s].pc \in {"read", "skuCheck", "save", "find"}
             \/ /\ req'[s] = req[s] /\ req[s].pc # "find"
                /\ req[s].pc \in {"read", "skuCheck", "save"} => req[s].id # id
  BY <1>3 DEF FinishWrite, At, marked
<1>4. req'[r] = Idle /\ DOMAIN req' = Requests
  BY DEF FinishWrite
<1>5. \A s \in Requests : req'[s] \in Request
  BY <1>1, <1>2, <1>3, <1>4, IdleOK
<1>6. req' \in [Requests -> Request]
  BY <1>4, <1>5 DEF FinishWrite
<1>7. TypeOK'
  BY <1>6 DEF ProductsInv, TypeOK
<1>8. \A s \in Requests :
        /\ req'[s].pc = "copy" <=> req[s].pc = "copy"
        /\ req[s].pc = "copy" => req'[s].upload = req[s].upload
  BY <1>1, <1>2, <1>3, <1>4, IdleOK
<1>9. CopiesOK'
  BY <1>8 DEF ProductsInv, CopiesOK, At
<1>10. ASSUME NEW s \in Requests PROVE LocalsOK(req[s])'
  <2>1. CASE s = r
    BY <1>4, <2>1, IdleOK DEF Idle, LocalsOK, Editing
  <2>2. CASE s # r
    <3>1. LocalsOK(req[s]) /\ req[s] \in Request
      BY <1>1 DEF ProductsInv, LocalsAllOK
    <3>2. /\ req'[s].pc = req[s].pc /\ req'[s].upload = req[s].upload
          /\ req'[s].op = req[s].op /\ req'[s].id = req[s].id
          /\ req'[s].form = req[s].form /\ req'[s].row = req[s].row
      BY <1>2, <1>3, <2>2, <3>1
    <3> QED BY <3>1, <3>2 DEF LocalsOK, Stored
  <2> QED BY <2>1, <2>2
<1>11. ASSUME NEW s \in Requests PROVE CurrentOK(req[s])'
  <2>1. CASE s = r
    BY <1>4, <2>1 DEF Idle, CurrentOK, Editing
  <2>2. CASE s # r /\ req'[s] = marked(req[s])
    BY <1>1, <1>2, <2>2 DEF CurrentOK
  <2>3. CASE /\ s # r /\ req'[s] = req[s] /\ req[s].pc # "find"
             /\ req[s].pc \in {"read", "skuCheck", "save"} => req[s].id # id
    <3>1. LocalsOK(req[s]) /\ CurrentOK(req[s])
      BY DEF ProductsInv, LocalsAllOK
    <3>2. CASE req[s].pc \notin {"read", "skuCheck", "save"}
      BY <2>3, <3>2 DEF CurrentOK, Editing
    <3>3. CASE req[s].pc \in {"read", "skuCheck", "save"}
      BY <2>3, <3>1, <3>3 DEF CurrentOK, LocalsOK, Editing
    <3> QED BY <3>2, <3>3
  <2> QED BY <1>3, <2>1, <2>2, <2>3
<1>12. LocalsAllOK'
  BY <1>10, <1>11 DEF LocalsAllOK
<1> QED BY <1>7, <1>9, <1>12 DEF ProductsInv

\* A step on file f changes nothing that anybody relies on, unless r is writing it.
LEMMA FileStep ==
    ASSUME ProductsInv, NEW r \in Requests, NEW q, NEW f \in Files, NEW st \in FileStates,
           Goto(r, q), file' = [file EXCEPT ![f] = st],
           \/ file[f] = "none" /\ st = "partial" /\ q.pc = "copy" /\ q.upload = f
              /\ req[r].pc # "copy"
           \/ req[r].pc = "copy" /\ req[r].upload = f /\ q.pc # "copy"
              /\ st \in {"none", "stored"},
           q \in Request, LocalsOK(q)', CurrentOK(q), q.pc # "find",
           UNCHANGED product, calls' \in 0..MaxCalls
    PROVE  ProductsInv'
<1>1. req \in [Requests -> Request] /\ file \in [Files -> FileStates]
  BY DEF ProductsInv, TypeOK
<1>2. req' \in [Requests -> Request] /\ req'[r] = q /\ \A s \in Requests : s # r => req'[s] = req[s]
  BY <1>1 DEF Goto
<1>3. /\ file' \in [Files -> FileStates] /\ file'[f] = st
      /\ \A g \in Files : g # f => file'[g] = file[g]
  BY <1>1
<1>4. TypeOK'
  BY <1>2, <1>3 DEF ProductsInv, TypeOK
<1>5. req[r].pc = "copy" => file[req[r].upload] = "partial"
  BY DEF ProductsInv, LocalsAllOK, LocalsOK
<1>6. \A i \in Files \cup {Absent} : Stored(i) => Stored(i)'
  BY <1>1, <1>3, <1>5 DEF Stored
<1>7. RowsOK'
  <2>1. \A k \in DOMAIN product : product[k].image \in Files \cup {Absent}
    BY TableTyped DEF ProductsInv, Row
  <2> QED BY <1>6, <2>1 DEF ProductsInv, RowsOK
<1>8. CopiesOK'
  <2>1. \A a, b \in Requests :
          At(a, "copy") /\ At(b, "copy") /\ req[a].upload = req[b].upload => a = b
    BY DEF ProductsInv, CopiesOK
  <2>2. \A a \in Requests : At(a, "copy") => file[req[a].upload] = "partial"
    BY DEF ProductsInv, LocalsAllOK, LocalsOK, At
  <2>3. \A g \in Files : file[g] = "partial" => \E a \in Requests : At(a, "copy") /\ req[a].upload = g
    BY DEF ProductsInv, CopiesOK
  <2>4. \A a, b \in Requests :
          At(a, "copy")' /\ At(b, "copy")' /\ req'[a].upload = req'[b].upload => a = b
    BY <1>2, <2>1, <2>2 DEF At
  <2>5. ASSUME NEW g \in Files, file'[g] = "partial"
        PROVE  \E a \in Requests : At(a, "copy")' /\ req'[a].upload = g
    <3>1. CASE g = f
      BY <1>2, <1>3, <2>5, <3>1 DEF At
    <3>2. CASE g # f
      <4>1. PICK a \in Requests : At(a, "copy") /\ req[a].upload = g
        BY <1>3, <2>3, <2>5, <3>2
      <4>2. a # r
        BY <3>2, <4>1 DEF At
      <4> QED BY <1>2, <4>1, <4>2 DEF At
    <3> QED BY <3>1, <3>2
  <2> QED BY <2>4, <2>5 DEF CopiesOK
<1>9. ASSUME NEW s \in Requests PROVE LocalsOK(req[s])' /\ CurrentOK(req[s])'
  <2>1. CASE s = r
    BY <1>2, <2>1 DEF LocalsOK, CurrentOK, Stored
  <2>2. CASE s # r
    <3>1. LocalsOK(req[s]) /\ CurrentOK(req[s]) /\ req[s] \in Request /\ req'[s] = req[s]
      BY <1>1, <1>2, <2>2 DEF ProductsInv, LocalsAllOK
    <3>2. CurrentOK(req[s])'
      BY <3>1 DEF CurrentOK, Matches, Live
    <3>3. /\ req[s].upload \in Files \cup {Absent}
          /\ req[s].form \in Form => req[s].form.image \in Files \cup {Absent}
          /\ req[s].row \in Row => req[s].row.image \in Files \cup {Absent}
      BY <3>1 DEF Request, Form, Row
    <3>4. req[s].pc = "copy" => file'[req[s].upload] = "partial"
      <4>1. req[s].pc = "copy" => req[s].upload # f
        BY <2>2, <3>1 DEF ProductsInv, CopiesOK, At, LocalsOK
      <4> QED BY <1>3, <3>1, <3>3, <4>1 DEF LocalsOK
    <3>5. LocalsOK(req[s])'
      BY <1>6, <3>1, <3>3, <3>4 DEF LocalsOK, Editing
    <3> QED BY <3>2, <3>5
  <2> QED BY <2>1, <2>2
<1> QED BY <1>4, <1>7, <1>8, <1>9 DEF ProductsInv, LocalsAllOK

LEMMA FinishStep ==
    ASSUME ProductsInv, NEW r \in Requests, Finish(r), req[r].pc # "copy",
           UNCHANGED <<product, file>>, calls' \in 0..MaxCalls
    PROVE  ProductsInv'
BY GotoStep, IdleOK DEF Finish

-----------------------------------------------------------------------------
(* The actions *)

LEMMA InvCreate ==
    ASSUME ProductsInv, NEW r \in Requests, NEW f \in Bodies, Create(r, f) PROVE ProductsInv'
<1> DEFINE q == [Idle EXCEPT !.pc = "insert", !.op = "create", !.form = f]
<1>1. f \in Form /\ Stored(f.image)
  BY DEF Bodies, ImageURLs, Stored
<1>2. /\ q \in Request /\ q.pc = "insert" /\ q.form = f /\ q.op = "create"
  BY <1>1, IdleOK DEF Idle, Request, Steps
<1>3. LocalsOK(q) /\ CurrentOK(q)
  BY <1>1, <1>2 DEF LocalsOK, CurrentOK, Editing
<1>4. req[r].pc # "copy" /\ calls' \in 0..MaxCalls
  BY DEF Create, Arrives, At, ProductsInv, TypeOK
<1>5. Goto(r, q) /\ UNCHANGED <<product, file>>
  BY DEF Create
<1> HIDE DEF q
<1> QED BY <1>2, <1>3, <1>4, <1>5, GotoStep

\* The first read of service.Update.
LEMMA InvReadRow ==
    ASSUME ProductsInv, NEW r \in Requests, NEW q \in Request, ReadRow(r, q),
           req[r].pc # "copy", q.form \in Form, Stored(q.form.image), Stored(q.upload),
           q.op = "image" => q.upload # Absent,
           q.op = "image" /\ ~q.overtaken =>
              q.id \in DOMAIN product /\ q.form = ImageForm(product[q.id], q.upload),
           UNCHANGED <<product, file>>, calls' \in 0..MaxCalls
    PROVE  ProductsInv'
<1>1. CASE ~Live(q.id)
  BY <1>1, FinishStep DEF ReadRow
<1>2. CASE Live(q.id)
  <2> DEFINE p == product[q.id]
             n == [q EXCEPT !.row = p, !.pc = IF q.form.sku = p.sku THEN "save" ELSE "skuCheck"]
  <2>1. p \in Row /\ q.id \in DOMAIN product /\ ~p.deleted /\ Stored(p.image)
    BY <1>2, TableTyped DEF Live, ProductsInv, RowsOK
  <2> HIDE DEF p
  <2>2. n \in Request /\ n.pc \in {"save", "skuCheck"}
    BY <2>1 DEF Request, Steps
  <2>3. /\ n.form = q.form /\ n.row = p /\ n.id = q.id /\ n.upload = q.upload
        /\ n.op = q.op /\ n.overtaken = q.overtaken
    BY DEF Request
  <2>4. Goto(r, n)
    BY <1>2 DEF ReadRow, p
  <2> HIDE DEF n
  <2>5. LocalsOK(n)
    BY <2>1, <2>2, <2>3 DEF LocalsOK, Editing
  <2>6. CurrentOK(n)
    BY <2>1, <2>2, <2>3 DEF CurrentOK, Editing, p
  <2> QED BY <2>2, <2>4, <2>5, <2>6, GotoStep
<1> QED BY <1>1, <1>2

LEMMA InvUpdate ==
    ASSUME ProductsInv, NEW r \in Requests, NEW f \in Bodies, NEW id \in IDs, Update(r, id, f)
    PROVE  ProductsInv'
<1> DEFINE q == [Idle EXCEPT !.op = "update", !.id = id, !.form = f]
<1>1. f \in Form /\ Stored(f.image)
  BY DEF Bodies, ImageURLs, Stored
<1>0. id \in 0..MaxRows
  BY DEF IDs
<1>2. /\ q \in Request /\ q.form = f /\ q.op = "update" /\ q.upload = Absent
  BY <1>0, <1>1, IdleOK DEF Idle, Request, Steps
<1>3. req[r].pc # "copy" /\ calls' \in 0..MaxCalls
  BY DEF Update, Arrives, At, ProductsInv, TypeOK
<1>4. ReadRow(r, q) /\ UNCHANGED <<product, file>>
  BY DEF Update
<1> HIDE DEF q
<1> QED BY <1>1, <1>2, <1>3, <1>4, InvReadRow DEF Stored

LEMMA InvImageUpdate ==
    ASSUME ProductsInv, NEW r \in Requests, ImageUpdate(r) PROVE ProductsInv'
<1>1. /\ req[r].pc = "read" /\ ReadRow(r, req[r]) /\ UNCHANGED <<product, file, calls>>
      /\ req[r] \in Request /\ calls \in 0..MaxCalls /\ LocalsOK(req[r]) /\ CurrentOK(req[r])
  BY DEF ImageUpdate, At, ProductsInv, LocalsAllOK, TypeOK
<1> QED BY <1>1, InvReadRow DEF LocalsOK, CurrentOK

LEMMA InvImageRead ==
    ASSUME ProductsInv, NEW r \in Requests, ImageRead(r) PROVE ProductsInv'
<1>1. /\ req[r].pc = "imageRead" /\ UNCHANGED <<product, file, calls>>
      /\ req[r] \in Request /\ calls \in 0..MaxCalls /\ LocalsOK(req[r])
  BY DEF ImageRead, At, ProductsInv, LocalsAllOK, TypeOK
<1>2. CASE ~Live(req[r].id)
  BY <1>1, <1>2, FinishStep DEF ImageRead
<1>3. CASE Live(req[r].id)
  <2> DEFINE p == product[req[r].id]
             form == ImageForm(p, req[r].upload)
             n == [req[r] EXCEPT !.pc = "read", !.form = form]
  <2>1. p \in Row /\ req[r].id \in DOMAIN product
    BY <1>3, TableTyped DEF Live, ProductsInv
  <2>2. Goto(r, n)
    BY <1>1, <1>3 DEF ImageRead, ImageForm
  <2> HIDE DEF p
  <2>3. form \in Form /\ form.image = req[r].upload
    BY <1>1, <2>1 DEF ImageForm, Form, Row, Request
  <2> HIDE DEF form
  <2>4. n \in Request /\ n.pc = "read"
    BY <1>1, <2>3 DEF Request, Steps
  <2>5. /\ n.form = form /\ n.id = req[r].id /\ n.upload = req[r].upload /\ n.op = req[r].op
    BY <1>1 DEF Request
  <2> HIDE DEF n
  <2>6. LocalsOK(n)
    BY <1>1, <2>3, <2>4, <2>5 DEF LocalsOK, Editing
  <2>7. CurrentOK(n)
    BY <2>1, <2>4, <2>5 DEF CurrentOK, Editing, form, p
  <2> QED BY <1>1, <2>2, <2>4, <2>6, <2>7, GotoStep
<1> QED BY <1>2, <1>3

LEMMA InvSKUCheck ==
    ASSUME ProductsInv, NEW r \in Requests, SKUCheck(r) PROVE ProductsInv'
<1> DEFINE n == [req[r] EXCEPT !.pc = "save"]
<1>1. /\ req[r].pc = "skuCheck" /\ UNCHANGED <<product, file, calls>>
      /\ req[r] \in Request /\ calls \in 0..MaxCalls /\ LocalsOK(req[r]) /\ CurrentOK(req[r])
  BY DEF SKUCheck, At, ProductsInv, LocalsAllOK, TypeOK
<1>2. /\ n \in Request /\ n.pc = "save" /\ n.form = req[r].form /\ n.row = req[r].row
      /\ n.id = req[r].id /\ n.upload = req[r].upload /\ n.op = req[r].op
      /\ n.overtaken = req[r].overtaken
  BY <1>1 DEF Request, Steps
<1>3. Goto(r, n) \/ Finish(r)
  BY DEF SKUCheck, Goto
<1> HIDE DEF n
<1>4. LocalsOK(n) /\ CurrentOK(n)
  BY <1>1, <1>2 DEF LocalsOK, CurrentOK, Editing
<1> QED BY <1>1, <1>2, <1>3, <1>4, GotoStep, FinishStep

LEMMA InvDelete ==
    ASSUME ProductsInv, NEW r \in Requests, NEW id \in IDs, Delete(r, id) PROVE ProductsInv'
<1> DEFINE n == [Idle EXCEPT !.pc = "delete", !.op = "delete", !.id = id]
<1>1. /\ req[r].pc = "idle" /\ UNCHANGED <<product, file>> /\ calls' \in 0..MaxCalls
      /\ Goto(r, n) /\ id \in DOMAIN product
  BY DEF Delete, Arrives, Live, At, ProductsInv, TypeOK
<1>0. id \in 0..MaxRows
  BY DEF IDs
<1>2. n \in Request /\ n.pc = "delete" /\ n.op = "delete" /\ n.id = id
  BY <1>0, IdleOK DEF Idle, Request, Steps
<1> HIDE DEF n
<1>3. LocalsOK(n) /\ CurrentOK(n)
  BY <1>1, <1>2 DEF LocalsOK, CurrentOK, Editing
<1> QED BY <1>1, <1>2, <1>3, GotoStep

\* The page asked for is clamped, and the count fits the table.
LEMMA InvSearch ==
    ASSUME ProductsInv, NEW r \in Requests, NEW k \in PageNumbers, NEW z \in PageSizes,
           NEW st \in Statuses \cup {Absent}, Search(r, k, z, st)
    PROVE  ProductsInv'
<1> DEFINE total == Cardinality(Matches(st))
           p == Normalize([page |-> k, size |-> z, status |-> st, total |-> total])
           n == [Idle EXCEPT !.pc = "find", !.op = "search", !.page = p]
<1>1. /\ req[r].pc = "idle" /\ UNCHANGED <<product, file>> /\ calls' \in 0..MaxCalls
      /\ Goto(r, n)
  BY DEF Search, Arrives, At, ProductsInv, TypeOK
<1>2. total \in 0..MaxRows
  BY MatchesCounted DEF ProductsInv
<1> HIDE DEF total
<1>3. k \in Int /\ k <= MaxInt /\ z \in Int /\ z <= MaxInt
  <2>1. k \in -MaxInt..MaxInt /\ z \in -MaxInt..MaxInt
    BY ProductsAssumption, Zenon
  <2> QED BY <2>1
<1>4. p \in Page /\ p.total = total /\ p.status = st
  <2> DEFINE number == IF k < 0 THEN 0 ELSE k
             size == IF z <= 0 THEN DefaultSize ELSE IF z > MaxSize THEN MaxSize ELSE z
  <2>1. number \in 0..MaxInt /\ size \in 1..MaxSize
    BY <1>3
  <2> DEFINE a == [page |-> k, size |-> z, status |-> st, total |-> total]
  <2>2. a.page = k /\ a.size = z
    OBVIOUS
  <2> HIDE DEF a
  <2>3. p = [[a EXCEPT !.page = number] EXCEPT !.size = size]
    BY <2>2 DEF Normalize, a
  <2> HIDE DEF number, size
  <2>4. p = [page |-> number, size |-> size, status |-> st, total |-> total]
    BY <2>3 DEF a
  <2> HIDE DEF p
  <2> QED BY <1>2, <2>1, <2>4 DEF Page
<1> HIDE DEF p
<1>5. n \in Request /\ n.pc = "find" /\ n.op = "search" /\ n.page = p
  BY <1>4, IdleOK DEF Idle, Request, Steps
<1> HIDE DEF n
<1>6. LocalsOK(n) /\ CurrentOK(n)
  BY <1>4, <1>5 DEF LocalsOK, CurrentOK, Editing, total
<1> QED BY <1>1, <1>5, <1>6, GotoStep

\* A row that Update has assigned to is a row again, and a draft becomes one.
LEMMA ApplyTyped ==
    ASSUME NEW f \in Form, Stored(f.image),
           NEW p \in [sku : SKUs \cup {Absent}, info : Infos \cup {Absent}, status : Statuses,
                     image : Files \cup {Absent}, deleted : BOOLEAN],
           Stored(p.image)
    PROVE  Apply(p, f) \in Row /\ Stored(Apply(p, f).image)
<1> DEFINE image == IF f.image = Absent THEN p.image ELSE f.image
           status == IF f.status = Absent THEN p.status ELSE f.status
<1>1. Apply(p, f) = [sku |-> f.sku, info |-> f.info, status |-> status, image |-> image,
                     deleted |-> p.deleted]
  <2>1. p = [sku |-> p.sku, info |-> p.info, status |-> p.status, image |-> p.image,
             deleted |-> p.deleted]
    OBVIOUS
  <2>2. Apply(p, f) = [p EXCEPT !.sku = f.sku, !.info = f.info, !.image = image, !.status = status]
    BY DEF Apply
  <2> HIDE DEF image, status
  <2> QED BY <2>1, <2>2
<1>2. /\ f.sku \in SKUs /\ f.info \in Infos /\ status \in Statuses
      /\ image \in Files \cup {Absent} /\ p.deleted \in BOOLEAN /\ Stored(image)
  BY DEF Form
<1> HIDE DEF image, status
<1>3. Apply(p, f).image = image
  BY <1>1
<1> QED BY <1>1, <1>2, <1>3 DEF Row

LEMMA InvInsert ==
    ASSUME ProductsInv, NEW r \in Requests, Insert(r) PROVE ProductsInv'
<1> DEFINE f == req[r].form
           draft == [NoRow EXCEPT !.status = "DRAFT"]
           new == Apply(draft, f)
<1>1. /\ req[r].pc = "insert" /\ UNCHANGED <<file, calls>> /\ calls \in 0..MaxCalls
      /\ LocalsOK(req[r])
  BY DEF Insert, At, ProductsInv, LocalsAllOK, TypeOK
<1>2. f \in Form /\ Stored(f.image)
  BY <1>1 DEF LocalsOK
<1>3. draft.image = Absent /\ draft \in [sku : SKUs \cup {Absent}, info : Infos \cup {Absent},
          status : Statuses, image : Files \cup {Absent}, deleted : BOOLEAN]
  BY DEF NoRow, Statuses
<1>4. \/ Finish(r) /\ UNCHANGED product
      \/ /\ NewID <= MaxRows /\ FinishWrite(r, NewID)
         /\ product' = [k \in DOMAIN product \cup {NewID} |-> IF k = NewID THEN new ELSE product[k]]
  BY DEF Insert
<1> HIDE DEF f, draft
<1>5. new \in Row /\ Stored(new.image)
  BY <1>2, <1>3, ApplyTyped DEF Stored
<1> HIDE DEF new
<1>6. CASE Finish(r) /\ UNCHANGED product
  BY <1>1, <1>6, FinishStep
<1>7. CASE /\ NewID <= MaxRows /\ FinishWrite(r, NewID)
           /\ product' = [k \in DOMAIN product \cup {NewID} |-> IF k = NewID THEN new ELSE product[k]]
  <2>1. TypeOK /\ RowsOK
    BY DEF ProductsInv
  <2>2. /\ \A k \in DOMAIN product : product[k] \in Row
        /\ NewID \in Nat /\ NewID > 0 /\ NewID \notin DOMAIN product
        /\ DOMAIN product = 1..(NewID - 1)
    BY <2>1, TableTyped
  <2>3. DOMAIN product' = 1..NewID
    BY <1>7, <2>2
  <2>4. \A k \in 1..NewID : product'[k] = IF k = NewID THEN new ELSE product[k]
    BY <1>7, <2>2
  <2>5. \A k \in 1..NewID : k = NewID \/ k \in DOMAIN product
    BY <2>2
  <2>6. product' \in [1..NewID -> Row]
    <3>1. product' = [k \in 1..NewID |-> IF k = NewID THEN new ELSE product[k]]
      BY <1>7, <2>3
    <3>2. \A k \in 1..NewID : (IF k = NewID THEN new ELSE product[k]) \in Row
      BY <1>5, <2>2, <2>5
    <3> QED BY <3>1, <3>2
  <2>7. \E n \in 0..MaxRows : product' \in [1..n -> Row]
    BY <1>7, <2>2, <2>6
  <2>8. RowsOK'
    BY <1>1, <1>5, <2>1, <2>3, <2>4, <2>5 DEF RowsOK, Stored
  <2>9. DOMAIN product \subseteq DOMAIN product'
    BY <1>7
  <2>10. \A k \in DOMAIN product : k # NewID => product'[k] = product[k]
    BY <1>7
  <2>11. PICK id : id = NewID
    OBVIOUS
  <2> QED BY <1>1, <1>7, <2>7, <2>8, <2>9, <2>10, <2>11, WriteStep
<1> QED BY <1>4, <1>6, <1>7

LEMMA InvSave ==
    ASSUME ProductsInv, NEW r \in Requests, Save(r) PROVE ProductsInv'
<1> DEFINE id == req[r].id
           new == Apply(req[r].row, req[r].form)
<1>1. /\ req[r].pc = "save" /\ UNCHANGED <<file, calls>> /\ calls \in 0..MaxCalls
      /\ LocalsOK(req[r])
  BY DEF Save, At, ProductsInv, LocalsAllOK, TypeOK
<1>2. \/ Finish(r) /\ UNCHANGED product
      \/ FinishWrite(r, id) /\ product' = [product EXCEPT ![id] = new]
  BY DEF Save
<1>3. /\ req[r].form \in Form /\ Stored(req[r].form.image)
      /\ req[r].row \in Row /\ Stored(req[r].row.image) /\ id \in DOMAIN product
  BY <1>1 DEF LocalsOK, Editing
<1>4. req[r].row \in [sku : SKUs \cup {Absent}, info : Infos \cup {Absent},
          status : Statuses, image : Files \cup {Absent}, deleted : BOOLEAN]
  BY <1>3 DEF Row
<1>5. new \in Row /\ Stored(new.image)
  BY <1>3, <1>4, ApplyTyped
<1> HIDE DEF id, new
<1>6. CASE Finish(r) /\ UNCHANGED product
  BY <1>1, <1>6, FinishStep
<1>7. CASE FinishWrite(r, id) /\ product' = [product EXCEPT ![id] = new]
  <2>1. PICK n \in 0..MaxRows : product \in [1..n -> Row]
    BY DEF ProductsInv, TypeOK
  <2>2. product' \in [1..n -> Row]
    BY <1>3, <1>5, <1>7, <2>1
  <2>3. RowsOK'
    BY <1>1, <1>3, <1>5, <1>7, <2>1 DEF ProductsInv, RowsOK, Stored
  <2>4. /\ DOMAIN product \subseteq DOMAIN product'
        /\ \A k \in DOMAIN product : k # id => product'[k] = product[k]
    BY <1>7
  <2>5. PICK i : i = id
    OBVIOUS
  <2> QED BY <1>1, <1>7, <2>1, <2>2, <2>3, <2>4, <2>5, WriteStep
<1> QED BY <1>2, <1>6, <1>7

LEMMA InvSoftDelete ==
    ASSUME ProductsInv, NEW r \in Requests, SoftDelete(r) PROVE ProductsInv'
<1> DEFINE id == req[r].id
           new == [product[id] EXCEPT !.deleted = TRUE]
<1>1. /\ req[r].pc = "delete" /\ UNCHANGED <<file, calls>> /\ FinishWrite(r, id)
      /\ product' = [product EXCEPT ![id] = new] /\ LocalsOK(req[r])
  BY DEF SoftDelete, At, ProductsInv, LocalsAllOK
<1>2. id \in DOMAIN product
  BY <1>1 DEF LocalsOK
<1>3. PICK n \in 0..MaxRows : product \in [1..n -> Row]
  BY DEF ProductsInv, TypeOK
<1>4. new \in Row /\ new.image = product[id].image
  <2>1. product[id] \in Row
    BY <1>2, <1>3
  <2> HIDE DEF id
  <2> QED BY <2>1 DEF Row
<1> HIDE DEF new, id
<1>5. product' \in [1..n -> Row]
  BY <1>1, <1>2, <1>3, <1>4
<1>6. RowsOK'
  BY <1>1, <1>2, <1>3, <1>4 DEF ProductsInv, RowsOK, Stored
<1>7. /\ DOMAIN product \subseteq DOMAIN product'
      /\ \A k \in DOMAIN product : k # id => product'[k] = product[k]
  BY <1>1
<1>8. PICK i : i = id
  OBVIOUS
<1> QED BY <1>1, <1>3, <1>5, <1>6, <1>7, <1>8, WriteStep

LEMMA InvUpload ==
    ASSUME ProductsInv, NEW r \in Requests, NEW op \in {"upload", "image"},
           NEW id \in 0..MaxRows, NEW f \in Files, Upload(r, op, id, f)
    PROVE  ProductsInv'
<1> DEFINE q == [Idle EXCEPT !.pc = "copy", !.op = op, !.id = id, !.upload = f]
<1>1. /\ req[r].pc = "idle" /\ UNCHANGED product /\ calls' \in 0..MaxCalls /\ Goto(r, q)
      /\ file[f] = "none" /\ file' = [file EXCEPT ![f] = "partial"]
  BY DEF Upload, Arrives, At, ProductsInv, TypeOK
<1>2. q \in Request /\ q.pc = "copy" /\ q.upload = f
  BY IdleOK DEF Idle, Request, Steps
<1> HIDE DEF q
<1>3. PICK n : n = q
  OBVIOUS
<1>4. f # Absent /\ file'[f] = "partial"
  BY <1>1 DEF ProductsInv, TypeOK
<1>5. LocalsOK(n)'
  BY <1>2, <1>3, <1>4 DEF LocalsOK, Editing
<1>6. CurrentOK(n)
  BY <1>2, <1>3 DEF CurrentOK, Editing
<1> QED BY <1>1, <1>2, <1>3, <1>5, <1>6, FileStep DEF FileStates

\* The end of a copy, good or bad.
LEMMA InvCopy ==
    ASSUME ProductsInv, NEW r \in Requests, CopyEnds(r) \/ CopyFails(r) PROVE ProductsInv'
<1> DEFINE q == [req[r] EXCEPT !.pc = "imageRead"]
<1>1. /\ req[r].pc = "copy" /\ UNCHANGED <<product, calls>> /\ req[r] \in Request
      /\ calls \in 0..MaxCalls /\ LocalsOK(req[r])
  BY DEF CopyEnds, CopyFails, At, ProductsInv, LocalsAllOK, TypeOK
<1>2. PICK f : f = req[r].upload
  OBVIOUS
<1>3. f \in Files
  BY <1>1, <1>2 DEF LocalsOK, Request
<1>4. PICK st \in {"none", "stored"} : file' = [file EXCEPT ![f] = st]
  BY <1>2 DEF CopyEnds, CopyFails
<1>5. CASE Finish(r)
  <2>1. LocalsOK(Idle)'
    BY DEF LocalsOK, Idle, Editing
  <2>2. Goto(r, Idle) /\ Idle.pc = "idle"
    BY <1>5 DEF Finish, Idle
  <2> QED BY <1>1, <1>2, <1>3, <1>4, <2>1, <2>2, IdleOK, FileStep DEF FileStates
<1>6. CASE Goto(r, q) /\ req[r].op = "image" /\ file' = [file EXCEPT ![f] = "stored"]
  <2>1. /\ q \in Request /\ q.pc = "imageRead" /\ q.upload = f /\ q.op = req[r].op
    BY <1>1, <1>2 DEF Request, Steps
  <2> HIDE DEF q
  <2>2. PICK n : n = q
    OBVIOUS
  <2>3. f # Absent /\ file'[f] = "stored"
    BY <1>3, <1>6 DEF ProductsInv, TypeOK
  <2>4. LocalsOK(n)'
    BY <1>6, <2>1, <2>2, <2>3 DEF LocalsOK, Editing, Stored
  <2>5. CurrentOK(n)
    BY <2>1, <2>2 DEF CurrentOK, Editing
  <2> QED BY <1>1, <1>2, <1>3, <1>6, <2>1, <2>2, <2>4, <2>5, FileStep DEF FileStates
<1>7. \/ Finish(r)
      \/ Goto(r, q) /\ req[r].op = "image" /\ file' = [file EXCEPT ![f] = "stored"]
  BY <1>2 DEF CopyEnds, CopyFails, Goto
<1> QED BY <1>5, <1>6, <1>7

\* The process dies: nobody is writing, and nothing that was complete is lost.
LEMMA InvCrash == ASSUME ProductsInv, Crash PROVE ProductsInv'
<1>1. /\ req' = [r \in Requests |-> Idle] /\ UNCHANGED <<product, calls>>
      /\ file' = [f \in Files |-> IF file[f] = "partial" THEN "torn" ELSE file[f]]
      /\ TypeOK /\ RowsOK
  BY DEF Crash, ProductsInv
<1>2. TypeOK'
  BY <1>1, IdleOK DEF TypeOK, FileStates
<1>3. RowsOK'
  <2>1. \A k \in DOMAIN product : product[k].image \in Files \cup {Absent}
    BY <1>1, TableTyped DEF Row
  <2> QED BY <1>1, <2>1 DEF RowsOK, Stored
<1>4. \A r \in Requests : req'[r] = Idle
  BY <1>1
<1>5. CopiesOK'
  BY <1>1, <1>4, IdleOK DEF CopiesOK, At
<1>6. LocalsAllOK'
  BY <1>4 DEF LocalsAllOK, LocalsOK, CurrentOK, Idle, Editing
<1> QED BY <1>2, <1>3, <1>5, <1>6 DEF ProductsInv

LEMMA ProductsInitOK == Init => ProductsInv
<1> SUFFICES ASSUME Init PROVE ProductsInv
  OBVIOUS
<1>1. product \in [1..0 -> Row] /\ DOMAIN product = {}
  BY DEF Init
<1>2. TypeOK
  BY <1>1, IdleOK DEF Init, TypeOK, FileStates
<1>3. RowsOK
  BY <1>1 DEF RowsOK
<1>4. CopiesOK /\ LocalsAllOK
  BY IdleOK DEF Init, CopiesOK, LocalsAllOK, At
<1> QED BY <1>2, <1>3, <1>4 DEF ProductsInv

LEMMA ProductsNextOK == ProductsInv /\ [Next]_vars => ProductsInv'
<1> SUFFICES ASSUME ProductsInv, [Next]_vars PROVE ProductsInv'
  OBVIOUS
<1>1. CASE UNCHANGED vars
  <2>1. TypeOK' /\ RowsOK' /\ CopiesOK'
    BY <1>1 DEF vars, ProductsInv, TypeOK, RowsOK, CopiesOK, Stored, At
  <2>2. ASSUME NEW r \in Requests PROVE LocalsOK(req[r])' /\ CurrentOK(req[r])'
    <3>1. LocalsOK(req[r]) /\ CurrentOK(req[r])
      BY DEF ProductsInv, LocalsAllOK
    <3>2. LocalsOK(req[r])'
      BY <1>1, <3>1 DEF vars, LocalsOK, Stored
    <3>3. CurrentOK(req[r])'
      BY <1>1, <3>1 DEF vars, CurrentOK, Matches, Live
    <3> QED BY <3>2, <3>3
  <2> QED BY <2>1, <2>2 DEF ProductsInv, LocalsAllOK
<1>2. ASSUME NEW r \in Requests, Arrive(r) PROVE ProductsInv'
  <2>1. \A id \in IDs : id \in 0..MaxRows
    BY DEF IDs
  <2> QED BY <1>2, <2>1, InvCreate, InvUpdate, InvUpload, InvDelete, InvSearch DEF Arrive
<1>3. ASSUME NEW r \in Requests, Find(r) \/ Lose(r) PROVE ProductsInv'
  <2>1. /\ req[r].pc # "copy" /\ Finish(r) /\ UNCHANGED <<product, file>>
        /\ calls' \in 0..MaxCalls
    BY <1>3 DEF Find, Lose, At, ProductsInv, TypeOK
  <2> QED BY <2>1, FinishStep
<1>4. ASSUME NEW r \in Requests, Proceed(r) PROVE ProductsInv'
  BY <1>3, <1>4, InvInsert, InvSKUCheck, InvSave, InvSoftDelete, InvCopy, InvImageRead,
     InvImageUpdate DEF Proceed
<1> QED BY <1>1, <1>2, <1>4, InvCrash DEF Next

LEMMA ProductsInvariance == Spec => []ProductsInv
BY ProductsInitOK, ProductsNextOK, PTL DEF Spec

-----------------------------------------------------------------------------
(* The theorems *)

\* The ids of products have no gaps, and every row, file and request in flight
\* is well formed, for any number of concurrent requests.
THEOREM ProductsTypeCorrect == Spec => []TypeOK
<1>1. ProductsInv => TypeOK
  BY DEF ProductsInv
<1> QED BY ProductsInvariance, <1>1, PTL

\* No product ever shows an upload that is incomplete, removed or torn by a
\* crash, and an incomplete file always has exactly one request writing it.
THEOREM ImagesComplete == Spec => []UploadsAreSound
<1>1. ASSUME ProductsInv PROVE UploadsAreSound
  <2>1. ImagesAreStored
    BY <1>1 DEF ImagesAreStored, ProductsInv, RowsOK, LocalsAllOK, LocalsOK, Stored
  <2>2. ASSUME NEW f \in Files
        PROVE  file[f] = "partial" <=>
                 Cardinality({r \in Requests : At(r, "copy") /\ req[r].upload = f}) = 1
    <3> DEFINE W == {r \in Requests : At(r, "copy") /\ req[r].upload = f}
    <3>1. \A a, b \in W : a = b
      BY <1>1 DEF ProductsInv, CopiesOK
    <3>2. file[f] = "partial" <=> W # {}
      BY <1>1 DEF ProductsInv, CopiesOK, LocalsAllOK, LocalsOK, At
    <3> HIDE DEF W
    <3>3. ASSUME W = {} PROVE Cardinality(W) = 0
      BY <3>3, FS_EmptySet
    <3>4. ASSUME NEW a \in W PROVE Cardinality(W) = 1
      <4>1. W = {a}
        BY <3>1
      <4> QED BY <4>1, FS_Singleton
    <3>5. file[f] = "partial" <=> Cardinality(W) = 1
      BY <3>2, <3>3, <3>4
    <3> QED BY <3>5 DEF W
  <2> QED BY <2>1, <2>2 DEF UploadsAreSound, PartialFilesAreHeld
<1> QED BY ProductsInvariance, <1>1, PTL

\* Only three statements write the table.
LEMMA TableWrites ==
    ASSUME [Next]_vars, product' # product
    PROVE  \E w \in Requests : Insert(w) \/ Save(w) \/ SoftDelete(w)
<1>1. ASSUME NEW r \in Requests, Arrive(r) PROVE FALSE
  BY <1>1 DEF Arrive, Create, Update, Upload, Delete, Search
<1>2. ASSUME NEW r \in Requests, Proceed(r) PROVE Insert(r) \/ Save(r) \/ SoftDelete(r)
  BY <1>2 DEF Proceed, SKUCheck, CopyEnds, CopyFails, ImageRead, ImageUpdate, Find, Lose
<1> QED BY <1>1, <1>2 DEF Next, Crash, vars

\* Whoever writes the table leaves the program counter of the others alone.
LEMMA OthersKeepPC ==
    ASSUME ProductsInv, NEW w \in Requests, Insert(w) \/ Save(w) \/ SoftDelete(w),
           product' # product, NEW r \in Requests, r # w
    PROVE  req'[r].pc = req[r].pc
<1>1. PICK id : FinishWrite(w, id)
  BY DEF Insert, Save, SoftDelete
<1>2. req[r] \in Request
  BY DEF ProductsInv, TypeOK
<1>3. req'[r] = req[r] \/ req'[r] = [req[r] EXCEPT !.overtaken = TRUE]
  BY <1>1 DEF FinishWrite
<1> QED BY <1>2, <1>3 DEF Request

\* On an image upload that nobody overtook, assigning the form that was read
\* earlier is assigning the image.
LEMMA ImageOnly ==
    ASSUME NEW p \in Row, NEW f \in Files
    PROVE  Apply(p, ImageForm(p, f)) = [p EXCEPT !.image = f]
<1>1. p = [sku |-> p.sku, info |-> p.info, status |-> p.status, image |-> p.image,
           deleted |-> p.deleted]
  BY DEF Row
<1>2. f # Absent /\ p.status # Absent
  BY DEF Row, Statuses
<1> DEFINE g == ImageForm(p, f)
<1>3. g.sku = p.sku /\ g.info = p.info /\ g.status = p.status /\ g.image = f
  BY DEF ImageForm
<1> HIDE DEF g
<1>4. Apply(p, g) = [p EXCEPT !.sku = p.sku, !.info = p.info, !.image = f, !.status = p.status]
  BY <1>2, <1>3 DEF Apply
<1>5. Apply(p, g) = [p EXCEPT !.image = f]
  BY <1>1, <1>4
<1> QED BY <1>5 DEF g

\* A request that nobody overtook between its first read and its save changes
\* what its endpoint promises and no other column and no other row.
THEOREM EditsExact == Spec => EditsAreExact
<1>1. ASSUME ProductsInv, [Next]_vars, NEW r \in Requests, At(r, "save"), req'[r] = Idle,
             product' # product, ~req[r].overtaken
      PROVE  product' = [product EXCEPT ![req[r].id] = Effect(req[r], @)]
  <2>1. PICK w \in Requests : Insert(w) \/ Save(w) \/ SoftDelete(w)
    BY <1>1, TableWrites
  <2>2. w = r
    BY <1>1, <2>1, OthersKeepPC, IdleOK DEF At
  <2>3. product' = [product EXCEPT ![req[r].id] = Apply(req[r].row, req[r].form)]
    BY <1>1, <2>1, <2>2 DEF Insert, Save, SoftDelete, At
  <2>4. LocalsOK(req[r]) /\ CurrentOK(req[r]) /\ req[r].pc = "save" /\ req[r] \in Request
    BY <1>1 DEF ProductsInv, LocalsAllOK, At, TypeOK
  <2>5. product[req[r].id] = req[r].row /\ req[r].row \in Row
    BY <1>1, <2>4 DEF LocalsOK, CurrentOK, Editing
  <2>6. CASE req[r].op = "image"
    <3>1. req[r].upload \in Files /\ req[r].form = ImageForm(product[req[r].id], req[r].upload)
      BY <1>1, <2>4, <2>6 DEF LocalsOK, CurrentOK, Request
    <3>2. Apply(req[r].row, req[r].form) = [product[req[r].id] EXCEPT !.image = req[r].upload]
      BY <2>5, <3>1, ImageOnly
    <3> QED BY <2>3, <2>6, <3>2 DEF Effect
  <2>7. CASE req[r].op # "image"
    BY <2>3, <2>5, <2>7 DEF Effect
  <2> QED BY <2>6, <2>7
<1>2. ProductsInv /\ [Next]_vars
      => [\A r \in Requests :
            At(r, "save") /\ req'[r] = Idle /\ product' # product /\ ~req[r].overtaken =>
              product' = [product EXCEPT ![req[r].id] = Effect(req[r], @)]]_vars
  BY <1>1
<1> QED BY ProductsInvariance, <1>2, PTL DEF Spec, EditsAreExact

\* There is no way back for a deleted product but the save of a request that
\* had read it before the deletion.
THEOREM DeletionsStand == Spec => DeletedRowsAreFrozen
<1>1. ASSUME ProductsInv, [Next]_vars, NEW k \in DOMAIN product, product[k].deleted,
             product'[k] # product[k]
      PROVE  \E r \in Requests : At(r, "save") /\ req[r].id = k /\ req[r].overtaken
  <2>1. PICK w \in Requests : Insert(w) \/ Save(w) \/ SoftDelete(w)
    BY <1>1, TableWrites
  <2>2. TypeOK /\ LocalsOK(req[w]) /\ CurrentOK(req[w])
    BY <1>1 DEF ProductsInv, LocalsAllOK
  <2>3. ~Insert(w)
    <3>1. k # NewID
      BY <2>2, TableTyped
    <3> QED BY <1>1, <3>1 DEF Insert
  <2>4. ~SoftDelete(w)
    <3>1. SUFFICES ASSUME SoftDelete(w) PROVE FALSE
      OBVIOUS
    <3>2. product' = [product EXCEPT ![req[w].id].deleted = TRUE]
      BY <3>1 DEF SoftDelete
    <3>3. product[k] \in Row
      BY <2>2, TableTyped
    <3>4. [product[k] EXCEPT !.deleted = TRUE] = product[k]
      BY <1>1, <3>3 DEF Row
    <3> QED BY <1>1, <3>2, <3>4
  <2>5. Save(w) /\ req[w].pc = "save"
    BY <2>1, <2>3, <2>4 DEF Save, At
  <2>6. req[w].id = k
    BY <1>1, <2>5 DEF Save
  <2>7. req[w].overtaken
    BY <1>1, <2>2, <2>5, <2>6 DEF LocalsOK, CurrentOK, Editing
  <2> QED BY <2>5, <2>6, <2>7 DEF At
<1>2. ProductsInv /\ [Next]_vars
      => [\A k \in DOMAIN product : product[k].deleted =>
            \/ product'[k] = product[k]
            \/ \E r \in Requests : At(r, "save") /\ req[r].id = k /\ req[r].overtaken]_vars
  BY <1>1
<1> QED BY ProductsInvariance, <1>2, PTL DEF Spec, DeletedRowsAreFrozen

-----------------------------------------------------------------------------
(* Listings *)

\* Counted from the newest, the rows of a listing have the positions 0, 1, ...
\* without gaps.
LEMMA Positions ==
    ASSUME NEW S, S \subseteq Nat, IsFiniteSet(S)
    PROVE  /\ Cardinality(S) \in Nat
           /\ \A k \in S : Before(S, k) \in 0..(Cardinality(S) - 1)
           /\ \A i \in 0..(Cardinality(S) - 1) : \E k \in S : Before(S, k) = i
<1> DEFINE T == Cardinality(S)
           after(k) == {j \in S : j > k}
           f == [k \in S |-> Before(S, k)]
<1>1. T \in Nat
  BY FS_CardinalityType
<1>2. \A k \in S : IsFiniteSet(after(k)) /\ Cardinality(after(k)) \in Nat
  BY FS_Subset, FS_CardinalityType
<1>3. ASSUME NEW k \in S PROVE Before(S, k) \in 0..(T - 1)
  <2>1. after(k) \subseteq S /\ after(k) # S
    BY <1>3
  <2>2. Cardinality(after(k)) <= T /\ Cardinality(after(k)) # T
    BY <2>1, FS_Subset
  <2> QED BY <1>1, <1>2, <2>2 DEF Before
<1>4. ASSUME NEW k \in S, NEW m \in S, k < m PROVE Before(S, k) # Before(S, m)
  <2>0. m \in after(k) /\ m \notin after(m) /\ k \in Nat /\ m \in Nat
    BY <1>4
  <2>1. after(m) \subseteq after(k) /\ after(m) # after(k)
    <3>1. \A j \in S : j > m => j > k
      BY <1>4, <2>0
    <3> QED BY <2>0, <3>1
  <2>2. Cardinality(after(m)) # Cardinality(after(k))
    BY <1>2, <2>1, FS_Subset
  <2> QED BY <2>2 DEF Before
<1>5. f \in Injection(S, 0..(T - 1))
  <2>1. \A k, m \in S : Before(S, k) = Before(S, m) => k = m
    BY <1>4
  <2>2. f \in [S -> 0..(T - 1)]
    BY <1>3
  <2>3. \A k, m \in S : f[k] = f[m] => k = m
    BY <2>1
  <2> HIDE DEF f
  <2> QED BY <2>2, <2>3 DEF Injection, IsInjective
<1>6. IsFiniteSet(0..(T - 1)) /\ Cardinality(0..(T - 1)) = T
  BY <1>1, FS_Interval
<1>7. f \in Surjection(S, 0..(T - 1))
  BY <1>5, <1>6, FS_Injection
<1>8. \A i \in 0..(T - 1) : \E k \in S : f[k] = i
  BY <1>7 DEF Surjection
<1> QED BY <1>1, <1>3, <1>8

\* A product that fits an int is not wrapped.
LEMMA NoWrap ==
    ASSUME NEW m \in Nat, m <= MaxInt PROVE Wrap(m) = m
<1> DEFINE a == m + MaxInt + 1
           b == 2 * (MaxInt + 1)
<1>1. a \in Nat /\ b \in Nat /\ a < b /\ b > 0
  OBVIOUS
<1> HIDE DEF a, b
<1>2. a % b = a
  BY <1>1
<1> QED BY <1>2 DEF Wrap, a, b

LEMMA QuotientIs ==
    ASSUME NEW b \in Nat, NEW z \in Nat \ {0}, NEW n \in Nat
    PROVE  b \div z = n <=> n * z <= b /\ b < n * z + z
OBVIOUS

\* The number of pages is the quotient rounded up.
LEMMA PagesNeeded ==
    ASSUME NEW t \in Nat, NEW z \in Nat \ {0}, NEW n \in Nat
    PROVE  TotalPages(t, z) \in Nat /\ (TotalPages(t, z) <= n <=> t <= n * z)
BY DEF TotalPages

\* What a listing answers, when nobody wrote the table between its Count and its
\* Find, is the page of the table that was asked for, and its flags agree.
THEOREM ListingsExact == Spec => []PagesAreExact
<1>1. ASSUME ProductsInv, NEW r \in Requests, At(r, "find"), ~req[r].overtaken,
             req[r].page.page * req[r].page.size <= MaxInt
      PROVE  LET p == req[r].page
                 S == Matches(p.status)
                 a == Answer(r)
             IN /\ a.content = {k \in S : Before(S, k) \div p.size = p.page}
                /\ a.last <=> \A k \in S : Before(S, k) < (p.page + 1) * p.size
                /\ a.empty <=> p.page >= a.totalPages
                /\ a.totalElements = Cardinality(S)
  <2> DEFINE p == req[r].page
             S == Matches(p.status)
             T == Cardinality(S)
             n == p.page
             z == p.size
             content == {k \in S : n * z <= Before(S, k) /\ Before(S, k) < n * z + z}
             pages == TotalPages(T, z)
  <2>1. p \in Page /\ p.total = T
    BY <1>1 DEF ProductsInv, LocalsAllOK, CurrentOK, At
  <2>2. n \in Nat /\ z \in Nat \ {0} /\ n * z \in Nat
    BY <2>1 DEF Page
  <2>3. IsFiniteSet(S) /\ S \subseteq Nat
    <3>1. IsFiniteSet(S) /\ \A k \in DOMAIN product : k \in Nat
      BY <1>1, MatchesCounted, TableTyped DEF ProductsInv
    <3> QED BY <3>1 DEF Matches
  <2>4. Offset(p) = n * z
    BY <1>1, <2>2, NoWrap DEF Offset
  <2>5. Answer(r) = NewPage(p, T, Slice(S, n * z, z))
    BY <2>1, <2>4 DEF Answer
  <2> HIDE DEF p, S
  <2>6. /\ T \in Nat
        /\ \A k \in S : Before(S, k) \in Nat /\ Before(S, k) < T
        /\ \A i \in Nat : i < T => \E k \in S : Before(S, k) = i
    <3>1. /\ T \in Nat
          /\ \A k \in S : Before(S, k) \in 0..(T - 1)
          /\ \A i \in 0..(T - 1) : \E k \in S : Before(S, k) = i
      BY <2>3, Positions
    <3> HIDE DEF T
    <3> QED BY <3>1
  <2> HIDE DEF T, n, z
  <2>7. Slice(S, n * z, z) = content
    BY <2>2 DEF Slice
  <2>8. content = {k \in S : Before(S, k) \div z = n}
    BY <2>2, <2>6, QuotientIs
  <2>9. content = {} <=> T <= n * z
    <3>1. ASSUME T <= n * z PROVE content = {}
      BY <2>2, <2>6, <3>1
    <3>2. ASSUME ~(T <= n * z) PROVE content # {}
      <4>1. PICK k \in S : Before(S, k) = n * z
        BY <2>2, <2>6, <3>2
      <4> QED BY <2>2, <4>1
    <3> QED BY <3>1, <3>2
  <2>10. /\ pages \in Nat /\ (pages <= n <=> T <= n * z)
         /\ pages <= n + 1 <=> T <= (n + 1) * z
    BY <2>2, <2>6, PagesNeeded
  <2>11. (\A k \in S : Before(S, k) < (n + 1) * z) <=> T <= (n + 1) * z
    <3>1. (n + 1) * z \in Nat
      BY <2>2
    <3> QED BY <2>6, <3>1
  <2> HIDE DEF content, pages
  <2>12. Answer(r) = [content |-> content, totalElements |-> T, totalPages |-> pages,
                      first |-> n = 0, last |-> n >= pages - 1, empty |-> content = {}]
    BY <2>5, <2>7 DEF NewPage, pages, n, z
  <2>13. /\ Answer(r).content = content /\ Answer(r).totalElements = T
         /\ Answer(r).totalPages = pages
    BY <2>12
  <2>14. Answer(r).last = (n >= pages - 1) /\ Answer(r).empty = (content = {})
    <3> DEFINE isLast == n >= pages - 1
               isEmpty == content = {}
    <3>1. Answer(r) = [content |-> content, totalElements |-> T, totalPages |-> pages,
                       first |-> n = 0, last |-> isLast, empty |-> isEmpty]
      BY <2>12
    <3> HIDE DEF isLast, isEmpty
    <3>2. Answer(r).last = isLast /\ Answer(r).empty = isEmpty
      BY <3>1
    <3> QED BY <3>2 DEF isLast, isEmpty
  <2>15. Answer(r).last <=> \A k \in S : Before(S, k) < (n + 1) * z
    <3>1. (n >= pages - 1) <=> pages <= n + 1
      BY <2>2, <2>10
    <3> QED BY <2>10, <2>11, <2>14, <3>1, Zenon
  <2>16. Answer(r).empty <=> n >= pages
    <3>1. (n >= pages) <=> pages <= n
      BY <2>2, <2>10
    <3> QED BY <2>9, <2>10, <2>14, <3>1, Zenon
  <2> QED BY <2>8, <2>13, <2>15, <2>16 DEF p, S, T, n, z
<1>2. ProductsInv => PagesAreExact
  BY <1>1 DEF PagesAreExact
<1> QED BY ProductsInvariance, <1>2, PTL
=============================================================================
