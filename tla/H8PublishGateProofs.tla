-------------------------- MODULE H8PublishGateProofs --------------------------
(***************************************************************************)
(* Proofs about H8PublishGate: where a barrier stands between the store of *)
(* publish_closed and the load of publish_refs (adoption of a span, close  *)
(* and adoption of a page), the gate excludes, for any set of fewer than   *)
(* 65535 threads, whenever the store buffer drains.                        *)
(***************************************************************************)
EXTENDS H8PublishGate, FiniteSetTheorems, TLAPS

Fenced == {"adopt"} \cup PagePaths

-------------------------------------------------------------------------------
(***************************************************************************)
(* The programs of the fenced handovers: where the gate is shut, where the *)
(* frees are waited for, and the last operation that may lead back.        *)
(***************************************************************************)
ClosePos(q) == IF q = "page_close" THEN 3 ELSE 1
WaitPos(q)  == IF q = "adopt" THEN 4 ELSE IF q = "page_close" THEN 5 ELSE 3
FirmPos(q)  == IF q = "adopt" THEN 12 ELSE IF q = "page_close" THEN 7 ELSE 5
EndPos(q)   == IF q = "adopt" THEN 16 ELSE IF q = "page_close" THEN 10 ELSE 8

Shape(q, i) ==
  /\ Program[q][i] = "close" <=> i = ClosePos(q)
  /\ Program[q][i] = "wait" <=> i = WaitPos(q)
  /\ Program[q][i] = "open" <=> i = EndPos(q)
  /\ i = WaitPos(q) - 1 => Program[q][i] = "barrier"
  /\ Program[q][i] \in {"refs", "pending"} => i > WaitPos(q) /\ i <= FirmPos(q)
  /\ Program[q][i] \in {"owner", "zero"} => i > FirmPos(q)

LEMMA AdoptShape ==
  /\ DOMAIN AdoptProgram = 1 .. 16 /\ Len(AdoptProgram) = 16
  /\ \A i \in 1 .. 16 : Shape("adopt", i)
<1>1. DOMAIN AdoptProgram = 1 .. 16 /\ Len(AdoptProgram) = 16
  BY DEF AdoptProgram
<1>2. ASSUME NEW i \in 1 .. 16 PROVE Shape("adopt", i)
  <2>1. \/ i = 1 \/ i = 2 \/ i = 3 \/ i = 4 \/ i = 5 \/ i = 6 \/ i = 7 \/ i = 8
        \/ i = 9 \/ i = 10 \/ i = 11 \/ i = 12 \/ i = 13 \/ i = 14 \/ i = 15
        \/ i = 16
    OBVIOUS
  <2>2. Program["adopt"] = AdoptProgram
    BY DEF Program
  <2> QED
    BY <2>1, <2>2 DEF AdoptProgram, Shape, ClosePos, WaitPos, FirmPos, EndPos
<1> QED
  BY <1>1, <1>2

LEMMA PageCloseShape ==
  /\ DOMAIN PageCloseProgram = 1 .. 10 /\ Len(PageCloseProgram) = 10
  /\ \A i \in 1 .. 10 : Shape("page_close", i)
<1>1. DOMAIN PageCloseProgram = 1 .. 10 /\ Len(PageCloseProgram) = 10
  BY DEF PageCloseProgram
<1>2. ASSUME NEW i \in 1 .. 10 PROVE Shape("page_close", i)
  <2>1. \/ i = 1 \/ i = 2 \/ i = 3 \/ i = 4 \/ i = 5 \/ i = 6 \/ i = 7 \/ i = 8
        \/ i = 9 \/ i = 10
    OBVIOUS
  <2>2. Program["page_close"] = PageCloseProgram
    BY DEF Program
  <2> QED
    BY <2>1, <2>2 DEF PageCloseProgram, Shape, ClosePos, WaitPos, FirmPos,
                      EndPos
<1> QED
  BY <1>1, <1>2

LEMMA PageAdoptShape ==
  /\ DOMAIN PageAdoptProgram = 1 .. 8 /\ Len(PageAdoptProgram) = 8
  /\ \A i \in 1 .. 8 : Shape("page_adopt", i)
<1>1. DOMAIN PageAdoptProgram = 1 .. 8 /\ Len(PageAdoptProgram) = 8
  BY DEF PageAdoptProgram
<1>2. ASSUME NEW i \in 1 .. 8 PROVE Shape("page_adopt", i)
  <2>1. \/ i = 1 \/ i = 2 \/ i = 3 \/ i = 4 \/ i = 5 \/ i = 6 \/ i = 7 \/ i = 8
    OBVIOUS
  <2>2. Program["page_adopt"] = PageAdoptProgram
    BY DEF Program
  <2> QED
    BY <2>1, <2>2 DEF PageAdoptProgram, Shape, ClosePos, WaitPos, FirmPos,
                      EndPos
<1> QED
  BY <1>1, <1>2

LEMMA ProgramShape ==
  ASSUME NEW q \in Fenced
  PROVE  /\ DOMAIN Program[q] = 1 .. EndPos(q)
         /\ Len(Program[q]) = EndPos(q)
         /\ \A i \in 1 .. EndPos(q) : Shape(q, i)
         /\ ClosePos(q) \in Nat /\ WaitPos(q) \in Nat /\ FirmPos(q) \in Nat
         /\ EndPos(q) \in Nat
         /\ 0 < ClosePos(q) /\ ClosePos(q) < WaitPos(q) - 1
         /\ WaitPos(q) < FirmPos(q) /\ FirmPos(q) < EndPos(q)
<1>1. CASE q = "adopt"
  BY <1>1, AdoptShape DEF Program, ClosePos, WaitPos, FirmPos, EndPos
<1>2. CASE q = "page_close"
  BY <1>2, PageCloseShape DEF Program, ClosePos, WaitPos, FirmPos, EndPos
<1>3. CASE q = "page_adopt"
  BY <1>3, PageAdoptShape DEF Program, ClosePos, WaitPos, FirmPos, EndPos
<1> QED
  BY <1>1, <1>2, <1>3 DEF Fenced, PagePaths

LEMMA WaitAtIsWaitPos ==
  ASSUME path \in Fenced
  PROVE  WaitAt = WaitPos(path)
<1>1. WaitPos(path) \in DOMAIN Program[path]
  BY ProgramShape
<1>2. \A i \in DOMAIN Program[path] :
        Program[path][i] = "wait" <=> i = WaitPos(path)
  BY ProgramShape DEF Shape
<1> QED
  BY <1>1, <1>2 DEF WaitAt

\* Every program is a sequence.
LEMMA ProgramLength ==
  ASSUME NEW q \in Paths
  PROVE  Len(Program[q]) \in Nat /\ DOMAIN Program[q] = 1 .. Len(Program[q])
<1>1. CASE q = "exit"
  <2>1. Len(ExitProgram) = 13 /\ DOMAIN ExitProgram = 1 .. 13
    BY DEF ExitProgram
  <2>2. Program[q] = ExitProgram
    BY <1>1 DEF Program
  <2>3. Len(Program[q]) = 13 /\ DOMAIN Program[q] = 1 .. 13
    BY <2>1, <2>2, Zenon
  <2> QED
    BY <2>3
<1>2. CASE q \in Fenced
  BY <1>2, ProgramShape
<1> QED
  BY <1>1, <1>2, PathsAssumption DEF Fenced

-------------------------------------------------------------------------------
(***************************************************************************)
(* The inductive invariant.                                                *)
(***************************************************************************)

\* The closer has issued the store x.
Queued(x) == \E i \in 1 .. Len(buffer) : buffer[i] = x
Issued(x) == x \in visible \/ Queued(x)

\* The closed gate is visible before the frees are waited for; the last
\* stores come when nothing leads back any more, and "open" comes last.
Ordered ==
  path \in Fenced =>
    /\ at > ClosePos(path) => Issued("close")
    /\ at >= WaitPos(path) => "close" \in visible
    /\ Issued("zero") \/ Issued("owner") => at > FirmPos(path)
    /\ Issued("open") => at > EndPos(path)
    /\ \A i \in 1 .. Len(buffer) : buffer[i] = "open" => i = Len(buffer)
    /\ "open" \in visible => buffer = <<>>

\* The frees that hold a reference, and those of them that have found the
\* gate open again.
PastPcs == {"restate", "reword", "lease_state", "reowner", "retoken",
            "realive", "claim", "leave"}
HoldPcs == PastPcs \cup {"regate", "backout"}
Holding == {p \in Publishers : pub[p].pc \in HoldPcs}

\* publish_refs counts the references until an adoption stores 0.
LeaseCount ==
  path \in Fenced /\ "zero" \notin visible => refs = Cardinality(Holding)

\* From the closer's wait to the open gate nobody passes the second look.
Shut ==
  path \in Fenced /\ at > WaitPos(path) /\ "open" \notin visible =>
    \A p \in Publishers : pub[p].pc \notin PastPcs

\* A free of a page that has compared the owner again still knows it.
ToOwner ==
  path \in PagePaths =>
    \A p \in Publishers :
      pub[p].pc \in {"retoken", "realive", "claim", "leave"} =>
        pub[p].owner = Holder

GInv == TypeOK /\ Ordered /\ LeaseCount /\ Shut /\ ToOwner

-------------------------------------------------------------------------------
(***************************************************************************)
(* The store buffer.                                                       *)
(***************************************************************************)

\* A store joins the end of the buffer.
LEMMA Buffered ==
  ASSUME NEW op \in Stores, buffer \in Seq(Stores), visible \subseteq Stores,
         buffer' = Append(buffer, op), visible' = visible
  PROVE  /\ buffer' \in Seq(Stores)
         /\ \A x : Issued(x)' <=> Issued(x) \/ x = op
         /\ \A i \in 1 .. Len(buffer') :
              \/ i = Len(buffer') /\ buffer'[i] = op
              \/ i \in 1 .. Len(buffer) /\ buffer'[i] = buffer[i]
<1>1. /\ buffer' \in Seq(Stores)
      /\ Len(buffer') = Len(buffer) + 1 /\ Len(buffer) \in Nat
      /\ buffer'[Len(buffer) + 1] = op
      /\ \A i \in 1 .. Len(buffer) : buffer'[i] = buffer[i]
  OBVIOUS
<1>2. ASSUME NEW x PROVE Issued(x)' <=> Issued(x) \/ x = op
  <2>1. CASE Queued(x)'
    <3>1. PICK i \in 1 .. Len(buffer') : buffer'[i] = x
      BY <2>1 DEF Queued
    <3> QED
      BY <1>1, <3>1 DEF Queued, Issued
  <2>2. CASE Queued(x)
    <3>1. PICK i \in 1 .. Len(buffer) : buffer[i] = x
      BY <2>2 DEF Queued
    <3>2. i \in 1 .. Len(buffer') /\ buffer'[i] = x
      BY <1>1, <3>1
    <3> QED
      BY <2>2, <3>2 DEF Queued, Issued
  <2>3. CASE x = op
    <3>1. Len(buffer) + 1 \in 1 .. Len(buffer')
      BY <1>1
    <3> QED
      BY <1>1, <2>3, <3>1 DEF Queued, Issued
  <2> QED
    BY <2>1, <2>2, <2>3 DEF Issued
<1> QED
  BY <1>1, <1>2

\* The oldest store becomes visible; no store is lost.
LEMMA Drained ==
  ASSUME buffer \in Seq(Stores), visible \subseteq Stores, Drain
  PROVE  /\ buffer' \in Seq(Stores) /\ visible' \subseteq Stores
         /\ Head(buffer) \in Stores /\ Queued(Head(buffer))
         /\ \A x : Issued(x)' <=> Issued(x)
         /\ \A i \in 1 .. Len(buffer') :
              i + 1 \in 1 .. Len(buffer) /\ buffer'[i] = buffer[i + 1]
         /\ Len(buffer) \in Nat /\ Len(buffer') = Len(buffer) - 1
<1>1. /\ buffer # <<>> /\ buffer' = Tail(buffer)
      /\ visible' = visible \cup {Head(buffer)}
  BY DEF Drain
<1>2. /\ Len(buffer) \in Nat /\ Len(buffer) > 0
      /\ buffer' \in Seq(Stores) /\ Len(buffer') = Len(buffer) - 1
      /\ Head(buffer) = buffer[1] /\ Head(buffer) \in Stores
      /\ \A i \in 1 .. Len(buffer') : buffer'[i] = buffer[i + 1]
  BY <1>1
<1>3. Queued(Head(buffer))
  BY <1>2 DEF Queued
<1>4. ASSUME NEW x PROVE Issued(x)' <=> Issued(x)
  <2>1. CASE Queued(x)'
    <3>1. PICK i \in 1 .. Len(buffer') : buffer'[i] = x
      BY <2>1 DEF Queued
    <3>2. i + 1 \in 1 .. Len(buffer) /\ buffer[i + 1] = x
      BY <1>2, <3>1
    <3> QED
      BY <2>1, <3>2 DEF Queued, Issued
  <2>2. CASE Queued(x)
    <3>1. PICK i \in 1 .. Len(buffer) : buffer[i] = x
      BY <2>2 DEF Queued
    <3>2. CASE i = 1
      BY <1>1, <1>2, <2>2, <3>1, <3>2 DEF Issued
    <3>3. CASE i # 1
      <4>1. i - 1 \in 1 .. Len(buffer') /\ buffer'[i - 1] = x
        BY <1>2, <3>1, <3>3
      <4> QED
        BY <2>2, <4>1 DEF Queued, Issued
    <3> QED
      BY <3>2, <3>3
  <2>3. CASE ~Queued(x)' /\ ~Queued(x)
    BY <1>1, <1>3, <2>3 DEF Issued
  <2> QED
    BY <2>1, <2>2, <2>3
<1>5. visible' \subseteq Stores
  BY <1>1, <1>2
<1>6. \A i \in 1 .. Len(buffer') : i + 1 \in 1 .. Len(buffer)
  BY <1>2
<1> QED
  BY <1>2, <1>3, <1>4, <1>5, <1>6

-------------------------------------------------------------------------------
(***************************************************************************)
(* Types.                                                                  *)
(***************************************************************************)
LEMMA ModRange ==
  ASSUME NEW M \in Nat \ {0}, NEW m \in Int
  PROVE  m % M \in 0 .. (M - 1)
OBVIOUS

LEMMA Width ==
  /\ RefsModulus \in Nat /\ RefsModulus = 65536
  /\ 0 \in Counts /\ \A n \in Counts : n \in Nat
  /\ \A n \in Counts : Plus1(n) \in Counts /\ Minus1(n) \in Counts
  /\ \A n \in Counts : n # RefsModulus - 1 => Plus1(n) = n + 1
  /\ \A n \in Counts : n # 0 => Minus1(n) = n - 1
<1>1. RefsModulus \in Nat /\ RefsModulus = 65536
  BY DEF RefsModulus
<1>2. 0 \in Counts /\ \A n \in Counts : n \in Nat /\ n < RefsModulus
  BY <1>1 DEF Counts
<1>3. ASSUME NEW n \in Counts
      PROVE  /\ Plus1(n) \in Counts /\ Minus1(n) \in Counts
             /\ n # RefsModulus - 1 => Plus1(n) = n + 1
             /\ n # 0 => Minus1(n) = n - 1
  <2>1. n \in Nat /\ n < RefsModulus
    BY <1>2
  <2>2. \A m \in Int : m % RefsModulus \in Counts
    <3>1. RefsModulus \in Nat \ {0}
      BY <1>1
    <3> QED
      BY <3>1, ModRange DEF Counts
  <2>3. Plus1(n) \in Counts /\ Minus1(n) \in Counts
    <3>1. n + 1 \in Int /\ n + RefsModulus - 1 \in Int
      BY <1>1, <2>1
    <3> QED
      BY <2>2, <3>1 DEF Plus1, Minus1
  <2>4. n # RefsModulus - 1 => Plus1(n) = n + 1
    BY <1>1, <2>1 DEF Plus1
  <2>5. n # 0 => Minus1(n) = n - 1
    <3>1. SUFFICES ASSUME n # 0 PROVE Minus1(n) = n - 1
      OBVIOUS
    <3>2. n + RefsModulus - 1 = (n - 1) + RefsModulus
      BY <1>1, <2>1
    <3> QED
      BY <1>1, <2>1, <3>1, <3>2 DEF Minus1
  <2> QED
    BY <2>3, <2>4, <2>5
<1> QED
  BY <1>1, <1>2, <1>3

\* The wait of the program at work is one of its operations, or the program
\* is that of an exit, which never goes back to it.
LEMMA BackIsInProgram ==
  ASSUME TypeOK, NEW op, Check(op)
  PROVE  at' \in 1 .. Len(Program[path]) + 1
<1>0. path \in Paths
  BY DEF TypeOK
<1>1. at \in 1 .. Len(Program[path]) /\ Len(Program[path]) \in Nat
  BY <1>0, ProgramLength DEF Check, NextOp
<1>2. CASE at' = at + 1 \/ at' = at
  BY <1>1, <1>2
<1>3. CASE at' = WaitAt /\ path # "exit"
  <2>1. path \in Fenced
    BY <1>0, <1>3, PathsAssumption DEF Fenced
  <2> QED
    BY <1>3, <2>1, WaitAtIsWaitPos, ProgramShape
<1>4. \/ at' = at + 1 \/ at' = at
      \/ at' = WaitAt /\ path # "exit"
  <2>1. CASE Advance
    BY <2>1 DEF Advance
  <2>2. CASE NotQuiescent
    <3>1. at' = at \/ at' = WaitAt
      BY <2>2 DEF NotQuiescent
    <3>2. path = "exit" => at' = at
      BY <2>2 DEF NotQuiescent
    <3> QED
      BY <3>1, <3>2
  <2> QED
    BY <2>1, <2>2 DEF Check
<1> QED
  BY <1>2, <1>3, <1>4

LEMMA CloserTypes ==
  ASSUME TypeOK, Closer \/ Drain
  PROVE  TypeOK'
<1> DEFINE Outcomes == {"running", "done", "left", "aborted"}
<1>0. Len(Program[path]) \in Nat
      /\ DOMAIN Program[path] = 1 .. Len(Program[path])
  <2>1. path \in Paths
    BY DEF TypeOK
  <2> QED
    BY <2>1, ProgramLength
<1>1. path' = path /\ pub' = pub
  BY DEF Closer, Drain, Store, Barrier, WaitPublishersZero, Collect, Check,
         Advance, NotQuiescent, closerVars
<1>2. pending' \in BOOLEAN /\ outcome' \in Outcomes
  BY DEF TypeOK, Closer, Drain, Store, Barrier, WaitPublishersZero, Collect,
         Check, Advance, NotQuiescent, closerVars
<1>3. refs' \in Counts
  BY Width DEF TypeOK, Closer, Drain, Store, Barrier, WaitPublishersZero,
               Collect, Check
<1>4. buffer' \in Seq(Stores) /\ visible' \subseteq Stores
  <2>1. CASE Drain
    BY <2>1, Drained DEF TypeOK
  <2>2. ASSUME NEW op \in Stores, Store(op)
        PROVE  buffer' \in Seq(Stores) /\ visible' \subseteq Stores
    BY <2>2, Buffered DEF TypeOK, Store
  <2>3. CASE UNCHANGED <<buffer, visible>>
    BY <2>3 DEF TypeOK
  <2> QED
    BY <2>1, <2>2, <2>3 DEF Closer, Barrier, WaitPublishersZero, Collect, Check
<1>5. at' \in Positions
  <2>1. CASE UNCHANGED at
    BY <2>1 DEF TypeOK
  <2>2. CASE Advance /\ at \in DOMAIN Program[path]
    BY <1>0, <2>2 DEF Advance, Positions
  <2>3. ASSUME NEW op, Check(op) PROVE at' \in Positions
    BY <2>3, BackIsInProgram DEF Positions
  <2> QED
    BY <2>1, <2>2, <2>3 DEF Closer, Drain, Store, Barrier, WaitPublishersZero,
                            Collect, NextOp, closerVars
<1>6. Positions' = Positions
  BY <1>1 DEF Positions
<1> QED
  BY <1>1, <1>2, <1>3, <1>4, <1>5, <1>6 DEF TypeOK

\* What a step of a free leaves alone.
LEMMA FreeFrame ==
  ASSUME NEW p \in Publishers, Free(p)
  PROVE  /\ path' = path /\ at' = at /\ buffer' = buffer /\ visible' = visible
         /\ outcome' \in {outcome, "aborted"}
         /\ pending' \in {pending, TRUE}
<1>1. CASE Load(p) \/ LoadWord(p) \/ LoadToken(p) \/ LoadOwner(p) \/ LoadCount(p)
  BY <1>1 DEF Load, LoadWord, LoadToken, LoadOwner, LoadCount, closerVars
<1>2. CASE Cas(p) \/ CasAbort(p) \/ Add(p) \/ Backout(p)
  BY <1>2 DEF Cas, CasAbort, Add, Backout, closerVars
<1>3. CASE Claim(p) \/ Leave(p)
  BY <1>3 DEF Claim, Leave, closerVars
<1> QED
  BY <1>1, <1>2, <1>3 DEF Free

\* What it does with its own record, and with the count.
LEMMA FreeMoves ==
  ASSUME TypeOK, NEW p \in Publishers, Free(p)
  PROVE  /\ \A q \in Publishers : q # p => pub'[q] = pub[q]
         /\ pub' \in [Publishers -> FreeRecords]
         /\ refs' \in Counts
<1> USE DEF TypeOK, FreeRecords
<1> DEFINE Goal == /\ \A q \in Publishers : q # p => pub'[q] = pub[q]
                   /\ pub' \in [Publishers -> FreeRecords]
                   /\ refs' \in Counts
<1>0. 0 \in Counts /\ \A n \in Counts : Plus1(n) \in Counts /\ Minus1(n) \in Counts
  BY Width
<1>1. ASSUME Load(p) PROVE Goal
  <2>0. pub[p].pc \in DOMAIN Pass(p) => Pass(p)[pub[p].pc] \in FreePcs
    BY DEF Pass, PagePass, SmallPass, FreePcs
  <2>1. PICK pc \in FreePcs : pub' = [pub EXCEPT ![p].pc = pc]
    BY <1>1, <2>0 DEF Load, Goto, Turn, First, FreePcs
  <2>2. refs' = refs
    BY <1>1 DEF Load
  <2> QED
    BY <2>1, <2>2
<1>2. ASSUME LoadWord(p) \/ LoadToken(p) \/ LoadOwner(p) \/ LoadCount(p)
      PROVE  Goal
  <2>1. Holder \in Words /\ Token \in Words
    BY DEF Holder, Token, Words
  <2>2. refs' = refs
    BY <1>2 DEF LoadWord, LoadToken, LoadOwner, LoadCount
  <2>3. {"count", "owner", "alive", "gate"} \subseteq FreePcs
    BY DEF FreePcs
  <2>4. CASE LoadWord(p)
    BY <2>1, <2>2, <2>3, <2>4 DEF LoadWord
  <2>5. CASE LoadToken(p)
    BY <2>1, <2>2, <2>3, <2>5 DEF LoadToken
  <2>6. CASE LoadOwner(p)
    BY <2>1, <2>2, <2>3, <2>6 DEF LoadOwner
  <2>7. CASE LoadCount(p)
    BY <2>2, <2>3, <2>7 DEF LoadCount
  <2> QED
    BY <1>2, <2>4, <2>5, <2>6, <2>7
<1>3. ASSUME Cas(p) \/ CasAbort(p) PROVE Goal
  BY <1>0, <1>3 DEF Cas, CasAbort, FreePcs
<1>4. ASSUME Add(p) \/ Leave(p) \/ Claim(p) PROVE Goal
  BY <1>0, <1>4 DEF Add, Leave, Claim, Goto, FreePcs
<1>5. ASSUME Backout(p) PROVE Goal
  BY <1>0, <1>5 DEF Backout, Free0, First, Words, FreePcs
<1> QED
  BY <1>1, <1>2, <1>3, <1>4, <1>5 DEF Free

LEMMA Types ==
  ASSUME TypeOK, [Next]_vars
  PROVE  TypeOK'
<1>1. ASSUME NEW p \in Publishers, Free(p) PROVE TypeOK'
  <2>1. /\ outcome' \in {"running", "done", "left", "aborted"}
        /\ pending' \in BOOLEAN
    BY <1>1, FreeFrame DEF TypeOK
  <2>2. Positions' = Positions
    BY <1>1, FreeFrame DEF Positions
  <2> QED
    BY <1>1, <2>1, <2>2, FreeFrame, FreeMoves DEF TypeOK
<1>2. CASE UNCHANGED vars
  <2>1. Positions' = Positions
    BY <1>2 DEF vars, Positions
  <2> QED
    BY <1>2, <2>1 DEF TypeOK, vars
<1> QED
  BY <1>1, <1>2, CloserTypes DEF Next

-------------------------------------------------------------------------------
(***************************************************************************)
(* The order of the closer's stores.                                       *)
(***************************************************************************)

\* What the closer's operation says of its place in a fenced program.
LEMMA OpPlace ==
  ASSUME path \in Fenced, NEW op, NextOp(op)
  PROVE  /\ at \in Nat /\ at <= EndPos(path) /\ Shape(path, at)
         /\ op = "close" <=> at = ClosePos(path)
         /\ op = "wait" <=> at = WaitPos(path)
         /\ op = "open" <=> at = EndPos(path)
         /\ at = WaitPos(path) - 1 => op = "barrier"
         /\ op \in {"refs", "pending"} =>
              at > WaitPos(path) /\ at <= FirmPos(path)
         /\ op \in {"owner", "zero"} => at > FirmPos(path)
<1>1. at \in 1 .. EndPos(path) /\ Program[path][at] = op
  BY ProgramShape DEF NextOp
<1>2. Shape(path, at)
  BY <1>1, ProgramShape
<1>3. EndPos(path) \in Nat
  BY ProgramShape
<1> QED
  BY <1>1, <1>2, <1>3 DEF Shape

\* An operation that stores nothing.
LEMMA OrderedNoStore ==
  ASSUME TypeOK, Ordered, path \in Fenced,
         NEW op, op \notin Stores, NextOp(op), UNCHANGED <<path, buffer, visible>>,
         op = "barrier" => buffer = <<>>,
         \/ at' = at + 1
         \/ at' = at
         \/ at' = WaitPos(path) /\ op \in {"refs", "pending"}
  PROVE  Ordered'
<1> USE ProgramShape, OpPlace DEF Ordered
<1>1. \A x : Issued(x)' <=> Issued(x)
  BY DEF Issued, Queued
<1>2. op # "close" /\ op # "open"
  BY DEF Stores
<1>3. at' > ClosePos(path) => Issued("close")
  BY <1>2
<1>4. at' >= WaitPos(path) => "close" \in visible
  <2>1. CASE at >= WaitPos(path)
    BY <2>1
  <2>2. CASE at' = at + 1 /\ at = WaitPos(path) - 1
    <3>1. buffer = <<>> /\ Issued("close")
      BY <2>2
    <3>2. ~Queued("close")
      BY <3>1 DEF Queued
    <3> QED
      BY <3>1, <3>2 DEF Issued
  <2> QED
    BY <2>1, <2>2
<1>5. Issued("zero") \/ Issued("owner") => at' > FirmPos(path)
  OBVIOUS
<1>6. Issued("open") => at' > EndPos(path)
  OBVIOUS
<1> QED
  BY <1>1, <1>3, <1>4, <1>5, <1>6

LEMMA OrderedStore ==
  ASSUME TypeOK, Ordered, path \in Fenced, NEW op \in Stores, Store(op)
  PROVE  Ordered'
<1> USE ProgramShape DEF Ordered
<1>1. NextOp(op) /\ at' = at + 1 /\ path' = path /\ visible' = visible
      /\ buffer' = IF op \in visible THEN buffer ELSE Append(buffer, op)
  BY DEF Store, Advance
<1>2. /\ at \in Nat /\ at <= EndPos(path)
      /\ op = "close" <=> at = ClosePos(path)
      /\ op = "open" <=> at = EndPos(path)
      /\ at # WaitPos(path) - 1
      /\ op \in {"owner", "zero"} => at > FirmPos(path)
  BY <1>1, OpPlace DEF Stores
<1>3. /\ \A x : Issued(x)' <=> Issued(x) \/ x = op
      /\ \A i \in 1 .. Len(buffer') :
           \/ i = Len(buffer')
           \/ i \in 1 .. Len(buffer) /\ buffer'[i] = buffer[i]
  <2>1. CASE op \in visible
    BY <1>1, <2>1 DEF Issued, Queued
  <2>2. CASE op \notin visible
    BY <1>1, <2>2, Buffered DEF TypeOK
  <2> QED
    BY <2>1, <2>2
<1>4. ~Issued("open")
  BY <1>2
<1>5. at' > ClosePos(path) => Issued("close")'
  BY <1>1, <1>2, <1>3
<1>6. at' >= WaitPos(path) => "close" \in visible'
  BY <1>1, <1>2
<1>7. Issued("zero")' \/ Issued("owner")' => at' > FirmPos(path)
  BY <1>1, <1>2, <1>3
<1>8. Issued("open")' => at' > EndPos(path)
  BY <1>1, <1>2, <1>3, <1>4
<1>9. \A i \in 1 .. Len(buffer') : buffer'[i] = "open" => i = Len(buffer')
  BY <1>3, <1>4 DEF Issued, Queued
<1>10. "open" \notin visible'
  BY <1>1, <1>4 DEF Issued
<1> QED
  BY <1>1, <1>5, <1>6, <1>7, <1>8, <1>9, <1>10, SMTT(40)

LEMMA OrderedDrain ==
  ASSUME TypeOK, Ordered, path \in Fenced, Drain
  PROVE  Ordered'
<1> USE DEF Ordered
<1>1. /\ path' = path /\ at' = at /\ buffer # <<>>
      /\ visible' = visible \cup {Head(buffer)} /\ buffer' = Tail(buffer)
  BY DEF Drain, closerVars
<1>2. /\ \A x : Issued(x)' <=> Issued(x)
      /\ \A i \in 1 .. Len(buffer') :
           i + 1 \in 1 .. Len(buffer) /\ buffer'[i] = buffer[i + 1]
      /\ Len(buffer) \in Nat /\ Len(buffer') = Len(buffer) - 1
      /\ buffer' \in Seq(Stores)
  BY Drained DEF TypeOK
<1>3. \A i \in 1 .. Len(buffer') : buffer'[i] = "open" => i = Len(buffer')
  BY <1>2
<1>4. "open" \in visible' => buffer' = <<>>
  <2>1. SUFFICES ASSUME "open" \in visible' PROVE buffer' = <<>>
    OBVIOUS
  <2>2. Head(buffer) = "open" /\ Head(buffer) = buffer[1] /\ Len(buffer) >= 1
    <3>1. "open" \notin visible
      BY <1>1
    <3>2. buffer \in Seq(Stores)
      BY DEF TypeOK
    <3>3. Head(buffer) = buffer[1] /\ Len(buffer) >= 1
      BY <1>1, <3>2
    <3> QED
      BY <1>1, <2>1, <3>1, <3>3
  <2>3. Len(buffer) = 1
    BY <1>2, <2>2
  <2> QED
    BY <1>2, <2>3
<1>5. at' >= WaitPos(path) => "close" \in visible'
  BY <1>1
<1> QED
  BY <1>1, <1>2, <1>3, <1>4, <1>5

\* Ordered is preserved.
LEMMA OrderedStep ==
  ASSUME TypeOK, Ordered, [Next]_vars
  PROVE  Ordered'
<1>0. path' = path
  BY FreeFrame DEF Next, vars, Closer, Drain, Store, Barrier,
     WaitPublishersZero, Collect, Check, Advance, NotQuiescent, closerVars
<1>1. CASE path \notin Fenced
  BY <1>0, <1>1 DEF Ordered
<1>2. CASE path \in Fenced
  <2>same. ASSUME UNCHANGED <<path, at, buffer, visible>> PROVE Ordered'
    BY <2>same DEF Ordered, Issued, Queued
  <2>1. ASSUME NEW op \in Stores, Store(op) PROVE Ordered'
    BY <1>2, <2>1, OrderedStore
  <2>2. CASE Drain
    BY <1>2, <2>2, OrderedDrain
  <2>3. CASE Barrier
    BY <1>2, <2>3, OrderedNoStore DEF Barrier, Advance, Stores
  <2>4. CASE WaitPublishersZero
    BY <1>2, <2>4, OrderedNoStore DEF WaitPublishersZero, Advance, Stores
  <2>5. CASE Collect
    BY <1>2, <2>5, OrderedNoStore DEF Collect, Advance, Stores, closerVars
  <2>6. ASSUME NEW op, Check(op) PROVE Ordered'
    <3>1. /\ op \in {"refs", "pending"} /\ NextOp(op)
          /\ UNCHANGED <<buffer, visible>>
          /\ Advance \/ NotQuiescent
      BY <2>6 DEF Check
    <3>2. at' = at + 1 \/ at' = at \/ at' = WaitPos(path)
      BY <1>2, <3>1, WaitAtIsWaitPos DEF Advance, NotQuiescent
    <3>3. op \notin Stores /\ op # "barrier"
      BY <3>1 DEF Stores
    <3> QED
      BY <1>0, <1>2, <3>1, <3>2, <3>3, OrderedNoStore
  <2>7. ASSUME NEW p \in Publishers, Free(p) PROVE Ordered'
    BY <2>7, <2>same, FreeFrame
  <2>8. CASE UNCHANGED vars
    BY <2>8, <2>same DEF vars
  <2> QED
    BY <2>1, <2>2, <2>3, <2>4, <2>5, <2>6, <2>7, <2>8 DEF Next, Closer
<1> QED
  BY <1>1, <1>2

-------------------------------------------------------------------------------
(***************************************************************************)
(* References, and the frees that pass the second look at the gate.        *)
(***************************************************************************)
LEMMA HoldingFacts ==
  /\ IsFiniteSet(Holding) /\ Cardinality(Holding) \in Nat
  /\ Cardinality(Holding) < RefsModulus - 1
  /\ \A S \in SUBSET Publishers :
       /\ IsFiniteSet(S) /\ Cardinality(S) \in Nat
       /\ Cardinality(S) < RefsModulus - 1
<1>1. ASSUME NEW S \in SUBSET Publishers
      PROVE  /\ IsFiniteSet(S) /\ Cardinality(S) \in Nat
             /\ Cardinality(S) < RefsModulus - 1
  <2>1. IsFiniteSet(S) /\ Cardinality(S) <= Cardinality(Publishers)
    BY FS_Subset, PublishersAssumption
  <2> QED
    BY <2>1, FS_CardinalityType, PublishersAssumption, Width
<1>2. Holding \in SUBSET Publishers
  BY DEF Holding
<1> QED
  BY <1>1, <1>2

\* Where a free may go, and what its step does with the count.
LEMMA FreeTurns ==
  ASSUME TypeOK, NEW p \in Publishers, Free(p)
  PROVE  \/ /\ refs' = refs
            /\ pub'[p].pc \in HoldPcs <=> pub[p].pc \in HoldPcs
         \/ /\ pub[p].pc \notin HoldPcs /\ pub'[p].pc = "regate"
            /\ refs' = Plus1(refs)
         \/ /\ pub[p].pc \in HoldPcs /\ pub'[p].pc \notin HoldPcs
            /\ refs' = Minus1(refs)
<1> USE DEF TypeOK, FreeRecords, At, Goto
<1>1. CASE Load(p)
  <2>0. pub[p].pc \in DOMAIN Pass(p) =>
          (Pass(p)[pub[p].pc] \in HoldPcs <=> pub[p].pc \in HoldPcs)
    BY DEF Pass, PagePass, SmallPass, HoldPcs, PastPcs
  <2>1. pub[p].pc \in DOMAIN Pass(p) =>
          (Turn(p) \in HoldPcs <=> pub[p].pc \in HoldPcs)
    BY DEF Pass, PagePass, SmallPass, Turn, First, HoldPcs, PastPcs
  <2>2. pub[p].pc \in DOMAIN Pass(p) /\ refs' = refs
        /\ pub'[p].pc = IF Passes(p) THEN Pass(p)[pub[p].pc] ELSE Turn(p)
    BY <1>1 DEF Load
  <2> QED
    BY <2>0, <2>1, <2>2
<1>2. CASE LoadWord(p) \/ LoadToken(p) \/ LoadOwner(p) \/ LoadCount(p)
  BY <1>2 DEF LoadWord, LoadToken, LoadOwner, LoadCount, HoldPcs, PastPcs
<1>3. CASE Cas(p)
  BY <1>3 DEF Cas, HoldPcs, PastPcs
<1>4. CASE CasAbort(p) \/ Claim(p)
  BY <1>4 DEF CasAbort, Claim, HoldPcs, PastPcs
<1>5. CASE Add(p)
  BY <1>5 DEF Add, HoldPcs, PastPcs
<1>6. CASE Backout(p)
  BY <1>6 DEF Backout, Free0, First, HoldPcs, PastPcs
<1>7. CASE Leave(p)
  BY <1>7 DEF Leave, HoldPcs, PastPcs
<1> QED
  BY <1>1, <1>2, <1>3, <1>4, <1>5, <1>6, <1>7 DEF Free

\* LeaseCount is preserved.
LEMMA LeaseCountStep ==
  ASSUME TypeOK, LeaseCount, [Next]_vars
  PROVE  LeaseCount'
<1>same. ASSUME refs' = refs, pub' = pub, path' = path, visible \subseteq visible'
         PROVE  LeaseCount'
  <2>1. Holding' = Holding
    BY <1>same DEF Holding
  <2> QED
    BY <1>same, <2>1 DEF LeaseCount
<1>1. ASSUME NEW p \in Publishers, Free(p) PROVE LeaseCount'
  <2>0. path' = path /\ visible' = visible
        /\ \A q \in Publishers : q # p => pub'[q] = pub[q]
    BY <1>1, FreeFrame, FreeMoves
  <2>1. CASE /\ refs' = refs
             /\ pub'[p].pc \in HoldPcs <=> pub[p].pc \in HoldPcs
    <3>1. Holding' = Holding
      BY <2>0, <2>1 DEF Holding
    <3> QED
      BY <2>0, <2>1, <3>1 DEF LeaseCount
  <2>2. CASE /\ pub[p].pc \notin HoldPcs /\ pub'[p].pc = "regate"
             /\ refs' = Plus1(refs)
    <3>1. Holding' = Holding \cup {p} /\ p \notin Holding
      BY <2>0, <2>2 DEF Holding, HoldPcs
    <3>2. Cardinality(Holding') = Cardinality(Holding) + 1
      BY <3>1, HoldingFacts, FS_AddElement
    <3>3. refs \in Counts
      BY DEF TypeOK
    <3>4. refs = Cardinality(Holding) => refs' = refs + 1
      BY <2>2, <3>3, HoldingFacts, Width
    <3> QED
      BY <2>0, <3>2, <3>4 DEF LeaseCount
  <2>3. CASE /\ pub[p].pc \in HoldPcs /\ pub'[p].pc \notin HoldPcs
             /\ refs' = Minus1(refs)
    <3>1. Holding' = Holding \ {p} /\ p \in Holding
      BY <2>0, <2>3 DEF Holding
    <3>2. Cardinality(Holding') = Cardinality(Holding) - 1
      BY <3>1, HoldingFacts, FS_RemoveElement
    <3>3. Cardinality(Holding) # 0
      BY <3>1, HoldingFacts, FS_EmptySet
    <3>4. refs \in Counts
      BY DEF TypeOK
    <3>5. refs = Cardinality(Holding) => refs' = refs - 1
      BY <2>3, <3>3, <3>4, Width
    <3> QED
      BY <2>0, <3>2, <3>5 DEF LeaseCount
  <2> QED
    BY <1>1, <2>1, <2>2, <2>3, FreeTurns
<1>2. CASE Drain
  <2>1. CASE Head(buffer) = "zero"
    BY <1>2, <2>1 DEF Drain, LeaseCount
  <2>2. CASE Head(buffer) # "zero"
    BY <1>2, <2>2, <1>same DEF Drain, closerVars
  <2> QED
    BY <2>1, <2>2
<1>3. CASE Closer
  BY <1>3, <1>same DEF Closer, Store, Barrier, WaitPublishersZero, Collect,
     Check, Advance, NotQuiescent, closerVars
<1>4. CASE UNCHANGED vars
  BY <1>4, <1>same DEF vars
<1> QED
  BY <1>1, <1>2, <1>3, <1>4 DEF Next

\* A free passes the second look only at an open gate, and the later ones
\* that page8k has only with the owner it knows.
LEMMA PastTurns ==
  ASSUME TypeOK, NEW p \in Publishers, Free(p)
  PROVE  /\ pub'[p].pc \in PastPcs =>
              pub[p].pc \in PastPcs \/ (pub[p].pc = "regate" /\ ~Closed)
         /\ path \in PagePaths /\ pub'[p].pc \in {"retoken", "realive",
                                                  "claim", "leave"} =>
              /\ pub'[p].owner = pub[p].owner
              /\ \/ pub[p].pc \in {"retoken", "realive", "claim", "leave"}
                 \/ pub[p].owner = Holder
<1> USE DEF TypeOK, FreeRecords, At, Goto
<1> DEFINE Late == {"retoken", "realive", "claim", "leave"}
<1>1. CASE Load(p)
  <2>0. pub[p].pc \in DOMAIN Pass(p) /\ pub'[p].owner = pub[p].owner
        /\ pub'[p].pc = IF Passes(p) THEN Pass(p)[pub[p].pc] ELSE Turn(p)
    BY <1>1 DEF Load
  <2>1. Turn(p) \notin PastPcs
    BY DEF Turn, First, PastPcs
  <2>2. Late \subseteq PastPcs
    BY DEF PastPcs
  <2>3. Pass(p)[pub[p].pc] \in PastPcs =>
          pub[p].pc \in PastPcs \/ pub[p].pc = "regate"
    BY <2>0 DEF Pass, PagePass, SmallPass, PastPcs
  <2>4. path \in PagePaths /\ Pass(p)[pub[p].pc] \in Late =>
          pub[p].pc \in Late \/ pub[p].pc = "reowner"
    BY <2>0 DEF Pass, PagePass
  <2>5. pub[p].pc = "regate" /\ Passes(p) => ~Closed
    BY DEF Passes
  <2>6. pub[p].pc = "reowner" /\ Passes(p) => pub[p].owner = Holder
    BY DEF Passes
  <2> QED
    BY <2>0, <2>1, <2>2, <2>3, <2>4, <2>5, <2>6
<1>2. CASE LoadWord(p) \/ LoadToken(p) \/ LoadOwner(p) \/ LoadCount(p)
  BY <1>2 DEF LoadWord, LoadToken, LoadOwner, LoadCount, PastPcs
<1>3. CASE Cas(p) \/ CasAbort(p) \/ Add(p)
  BY <1>3 DEF Cas, CasAbort, Add, PastPcs
<1>4. CASE Claim(p)
  BY <1>4 DEF Claim, PastPcs
<1>5. CASE Backout(p) \/ Leave(p)
  BY <1>5 DEF Backout, Leave, Free0, First, PastPcs
<1> QED
  BY <1>1, <1>2, <1>3, <1>4, <1>5 DEF Free

\* Shut is preserved: the wait finds no reference, and the closed gate is
\* visible since.
LEMMA ShutStep ==
  ASSUME TypeOK, Ordered, LeaseCount, Shut, [Next]_vars
  PROVE  Shut'
<1> USE ProgramShape
<1>same. ASSUME pub' = pub, path' = path, visible \subseteq visible',
                \/ at' = at /\ at \in Nat
                \/ at' = WaitPos(path)
                \/ at' = at + 1 /\ at # WaitPos(path) /\ at \in Nat
         PROVE  Shut'
  <2>1. path \in Fenced => WaitPos(path) \in Nat
    OBVIOUS
  <2> QED
    BY <1>same, <2>1 DEF Shut
<1>1. ASSUME NEW p \in Publishers, Free(p) PROVE Shut'
  <2>0. path' = path /\ visible' = visible /\ at' = at
        /\ \A q \in Publishers : q # p => pub'[q] = pub[q]
    BY <1>1, FreeFrame, FreeMoves
  <2>1. SUFFICES ASSUME path \in Fenced, at > WaitPos(path),
                        "open" \notin visible
                 PROVE  \A q \in Publishers : pub'[q].pc \notin PastPcs
    BY <2>0 DEF Shut
  <2>2. at \in Nat
    BY ProgramLength DEF TypeOK, Positions
  <2>3. Closed
    BY <2>1, <2>2 DEF Closed, Ordered
  <2>4. \A q \in Publishers : pub[q].pc \notin PastPcs
    BY <2>1 DEF Shut
  <2> QED
    BY <1>1, <2>0, <2>3, <2>4, PastTurns
<1>2. ASSUME path \in Fenced, NEW op, NextOp(op), op # "wait",
             pub' = pub, path' = path, visible' = visible,
             at' = at + 1 \/ at' = at \/ at' = WaitPos(path)
      PROVE  Shut'
  <2>1. at \in Nat /\ at # WaitPos(path)
    BY <1>2, OpPlace
  <2> QED
    BY <1>2, <1>same, <2>1
<1>3. CASE path \in Fenced /\ WaitPublishersZero
  <2>1. refs = 0 /\ NextOp("wait") /\ pub' = pub /\ path' = path
    BY <1>3 DEF WaitPublishersZero, Advance
  <2>2. at = WaitPos(path)
    BY <1>3, <2>1, OpPlace
  <2>3. "zero" \notin visible
    BY <1>3, <2>2 DEF Ordered, Issued
  <2>4. Cardinality(Holding) = 0
    BY <1>3, <2>1, <2>3 DEF LeaseCount
  <2>5. Holding = {}
    BY <2>4, HoldingFacts, FS_EmptySet
  <2> QED
    BY <2>1, <2>5 DEF Shut, Holding, HoldPcs
<1>4. CASE Drain
  <2>1. at \in Nat
    BY ProgramLength DEF TypeOK, Positions
  <2> QED
    BY <1>4, <1>same, <2>1 DEF Drain, closerVars
<1>5. CASE path \in Fenced /\ Closer
  <2>1. ASSUME NEW op \in Stores, Store(op) PROVE Shut'
    BY <1>2, <1>5, <2>1 DEF Store, Advance, Stores
  <2>2. CASE Barrier
    BY <1>2, <1>5, <2>2 DEF Barrier, Advance
  <2>3. CASE Collect
    BY <1>2, <1>5, <2>3 DEF Collect, Advance, closerVars
  <2>4. ASSUME NEW op \in {"refs", "pending"}, Check(op) PROVE Shut'
    <3>1. at' = at + 1 \/ at' = at \/ at' = WaitPos(path)
      BY <1>5, <2>4, WaitAtIsWaitPos DEF Check, Advance, NotQuiescent
    <3>2. NextOp(op) /\ pub' = pub /\ visible' = visible /\ path' = path
      BY <2>4 DEF Check, Advance, NotQuiescent
    <3> QED
      BY <1>2, <1>5, <3>1, <3>2
  <2> QED
    BY <1>3, <1>5, <2>1, <2>2, <2>3, <2>4 DEF Closer
<1>6. CASE path \notin Fenced /\ Closer
  <2>1. path' = path
    BY <1>6 DEF Closer, Store, Barrier, WaitPublishersZero, Collect, Check,
       Advance, NotQuiescent, closerVars
  <2> QED
    BY <1>6, <2>1 DEF Shut
<1>7. CASE UNCHANGED vars
  BY <1>7 DEF vars, Shut
<1> QED
  BY <1>1, <1>4, <1>5, <1>6, <1>7 DEF Next

\* ToOwner is preserved: the owner changes only while the gate is shut.
LEMMA ToOwnerStep ==
  ASSUME TypeOK, Ordered, Shut, ToOwner, [Next]_vars
  PROVE  ToOwner'
<1>same. ASSUME pub' = pub, path' = path, Holder' = Holder
         PROVE  ToOwner'
  BY <1>same DEF ToOwner
<1>1. ASSUME NEW p \in Publishers, Free(p) PROVE ToOwner'
  <2>0. path' = path /\ visible' = visible
        /\ \A q \in Publishers : q # p => pub'[q] = pub[q]
    BY <1>1, FreeFrame, FreeMoves
  <2>1. Holder' = Holder
    BY <2>0 DEF Holder
  <2> QED
    BY <1>1, <2>0, <2>1, PastTurns DEF ToOwner
<1>2. CASE Drain
  <2>0. path' = path /\ pub' = pub /\ buffer # <<>>
        /\ visible' = visible \cup {Head(buffer)}
    BY <1>2 DEF Drain, closerVars
  <2>1. CASE Head(buffer) = "owner" /\ path \in PagePaths
    <3>0. path \in Fenced /\ at \in Nat
      BY <2>1, ProgramLength DEF Fenced, TypeOK, Positions
    <3>1. Issued("owner")
      BY <1>2, <2>1, Drained DEF Issued, TypeOK
    <3>2. at > WaitPos(path) /\ "open" \notin visible
      BY <2>0, <3>0, <3>1, ProgramShape DEF Ordered
    <3>3. \A q \in Publishers : pub[q].pc \notin PastPcs
      BY <3>0, <3>2 DEF Shut
    <3> QED
      BY <2>0, <3>3 DEF ToOwner, PastPcs
  <2>2. CASE Head(buffer) # "owner"
    BY <2>0, <2>2, <1>same DEF Holder
  <2>3. CASE path \notin PagePaths
    BY <2>0, <2>3 DEF ToOwner
  <2> QED
    BY <2>1, <2>2, <2>3
<1>3. CASE Closer
  <2>1. path' = path /\ pub' = pub /\ visible' = visible
    BY <1>3 DEF Closer, Store, Barrier, WaitPublishersZero, Collect, Check,
       Advance, NotQuiescent, closerVars
  <2> QED
    BY <1>same, <2>1 DEF Holder
<1>4. CASE UNCHANGED vars
  BY <1>4, <1>same DEF vars, Holder
<1> QED
  BY <1>1, <1>2, <1>3, <1>4 DEF Next

-------------------------------------------------------------------------------
(***************************************************************************)
(* The theorems.                                                           *)
(***************************************************************************)
LEMMA InitGInv == Init => GInv
<1> SUFFICES ASSUME Init PROVE GInv
  OBVIOUS
<1>1. path \in Paths /\ 1 \in Positions
  BY ProgramLength DEF Init, Positions
<1>2. TypeOK
  <2>1. Free0 \in FreeRecords
    BY Width DEF Free0, First, FreeRecords, FreePcs, Words
  <2>2. <<>> \in Seq(Stores) /\ 0 \in Counts
    BY Width
  <2> QED
    BY <1>1, <2>1, <2>2 DEF Init, TypeOK
<1>3. \A x : ~Issued(x)
  BY DEF Init, Issued, Queued
<1>4. Ordered
  <2>1. path \in Fenced => ClosePos(path) >= 1 /\ WaitPos(path) > 1
                           /\ ClosePos(path) \in Nat /\ WaitPos(path) \in Nat
    BY ProgramShape
  <2> QED
    BY <1>3, <2>1 DEF Init, Ordered
<1>5. \A p \in Publishers : pub[p].pc \notin HoldPcs
  BY DEF Init, Free0, First, HoldPcs, PastPcs
<1>6. LeaseCount
  <2>1. Holding = {}
    BY <1>5 DEF Holding
  <2> QED
    BY <2>1, FS_EmptySet DEF Init, LeaseCount
<1>7. Shut /\ ToOwner
  BY <1>5 DEF Shut, ToOwner, HoldPcs, PastPcs
<1> QED
  BY <1>2, <1>4, <1>6, <1>7 DEF GInv

\* The inductive invariant GInv of the gate.
THEOREM GateInvariant == Spec => []GInv
<1>1. GInv /\ [Next]_vars => GInv'
  BY Types, OrderedStep, LeaseCountStep, ShutStep, ToOwnerStep DEF GInv
<1> QED
  BY <1>1, InitGInv, PTL DEF Spec

\* Every field keeps its type: publish_refs stays a uint16_t, and the closer
\* stays within its program.
THEOREM GateTypes == Spec => []TypeOK
<1>1. GInv => TypeOK
  BY DEF GInv
<1> QED
  BY <1>1, GateInvariant, PTL

\* Where a barrier follows the store of publish_closed, no free is let in
\* between the wait for publish_refs and the reopening of the gate.
THEOREM FencedGateExcludes == Spec => []GateExcludes
<1>1. GInv => GateExcludes
  <2>1. SUFFICES ASSUME GInv, path # "exit", at > WaitAt,
                        "open" \notin visible, NEW p \in Publishers
                 PROVE  ~Admitted(p)
    BY DEF GateExcludes
  <2>2. path \in Fenced
    BY <2>1, PathsAssumption DEF GInv, TypeOK, Fenced
  <2>3. at > WaitPos(path)
    BY <2>1, <2>2, WaitAtIsWaitPos
  <2> QED
    BY <2>1, <2>2, <2>3 DEF GInv, Shut, Admitted, PastPcs
<1> QED
  BY <1>1, GateInvariant, PTL

\* A free of a page puts its slot into the inbox of the owner that the page
\* has while the free holds its reference.
THEOREM GatePublishesToOwner == Spec => []PublishesToOwner
<1>1. GInv => PublishesToOwner
  BY DEF GInv, ToOwner, PublishesToOwner, Admitted
<1> QED
  BY <1>1, GateInvariant, PTL
===============================================================================
