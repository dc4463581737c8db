--------------------------- MODULE Editor_proofs ---------------------------
(* Whatever is edited, undone and redone on whichever block, the            *)
(* connections of the plan stay sound, and what the planner shows as solved *)
(* is the result of the plan as it is, for every set of items, recipes,     *)
(* rates and loaded plans.                                                  *)
EXTENDS Planner, SequenceTheorems, TLAPS

Shaped(b) == {"id", "conns"} \subseteq DOMAIN b

(* The connections of one block, in a plan with the blocks ids.             *)
SoundIn(ids, b) ==
    \A c \in b.conns :
      /\ c.from \in ids \ {b.id}
      /\ \A d \in b.conns : d.item = c.item /\ d.from = c.from => d = c

(* The inductive invariant.  The history is not in it: whatever the undo    *)
(* stack holds, the guard of an undo looks at the plan as it is.  An id is  *)
(* drawn above all others, so a new block is nobody's source.               *)
PlanGood(bs, a, n) ==
    /\ n \in Nat /\ bs \in Seq(ToSet(bs))
    /\ a \in IdsOf(bs)
    /\ \A b \in ToSet(bs) : Shaped(b) /\ b.id \in 0..(n - 1) /\ SoundIn(IdsOf(bs), b)
EInv == PlanGood(blocks, active, next)

-----------------------------------------------------------------------------
(* Sequences of blocks.                                                     *)

LEMMA InRange ==
    ASSUME NEW s, NEW S, s \in Seq(S)
    PROVE  s \in Seq(ToSet(s)) /\ DOMAIN s = 1..Len(s) /\ ToSet(s) \subseteq S
<1>1. Len(s) \in Nat /\ DOMAIN s = 1..Len(s) /\ \A i \in 1..Len(s) : s[i] \in S
  BY LenProperties, ElementOfSeq
<1>2. s = [i \in 1..Len(s) |-> s[i]]
  BY IsASeq, <1>1
<1>3. [i \in 1..Len(s) |-> s[i]] \in Seq(ToSet(s))
  BY <1>1, IsASeq DEF ToSet
<1> QED
  BY <1>1, <1>2, <1>3 DEF ToSet

LEMMA FrontSlice ==
    ASSUME NEW S, NEW s \in Seq(S), NEW i \in 1..(Len(s) + 1)
    PROVE  /\ SubSeq(s, 1, i - 1) \in Seq(S) /\ Len(SubSeq(s, 1, i - 1)) = i - 1
           /\ \A n \in 1..(i - 1) : SubSeq(s, 1, i - 1)[n] = s[n]
<1>1. Len(s) \in Nat /\ \A n \in 1..Len(s) : s[n] \in S
  BY LenProperties, ElementOfSeq
<1>2. \A n \in 1..(i - 1) : s[n] \in S
  BY <1>1
<1> QED
  BY <1>1, <1>2, SubSeqProperties

LEMMA BackSlice ==
    ASSUME NEW S, NEW s \in Seq(S), NEW j \in 1..(Len(s) + 1)
    PROVE  /\ SubSeq(s, j, Len(s)) \in Seq(S) /\ Len(SubSeq(s, j, Len(s))) = Len(s) - j + 1
           /\ \A n \in 1..(Len(s) - j + 1) : SubSeq(s, j, Len(s))[n] = s[n + j - 1]
<1>1. Len(s) \in Nat /\ \A n \in 1..Len(s) : s[n] \in S
  BY LenProperties, ElementOfSeq
<1>2. \A n \in j..Len(s) : s[n] \in S
  BY <1>1
<1> QED
  BY <1>1, <1>2, SubSeqProperties

LEMMA Joined ==
    ASSUME NEW S, NEW s \in Seq(S), NEW u \in Seq(S)
    PROVE  s \o u \in Seq(S) /\ ToSet(s \o u) = ToSet(s) \cup ToSet(u)
<1>1. /\ Len(s) \in Nat /\ Len(u) \in Nat /\ DOMAIN s = 1..Len(s) /\ DOMAIN u = 1..Len(u)
      /\ s \o u \in Seq(S) /\ DOMAIN (s \o u) = 1..(Len(s) + Len(u))
      /\ \A n \in 1..(Len(s) + Len(u)) : (s \o u)[n] = IF n <= Len(s) THEN s[n] ELSE u[n - Len(s)]
  BY LenProperties, ConcatProperties
<1>2. ASSUME NEW n \in 1..(Len(s) + Len(u)) PROVE (s \o u)[n] \in ToSet(s) \cup ToSet(u)
  <2>1. CASE n <= Len(s)
    BY <1>1, <2>1 DEF ToSet
  <2>2. CASE n > Len(s)
    <3>1. n - Len(s) \in 1..Len(u)
      BY <1>1, <2>2
    <3> QED
      BY <1>1, <2>2, <3>1 DEF ToSet
  <2> QED
    BY <1>1, <2>1, <2>2
<1>3. \A n \in 1..Len(s) : s[n] \in ToSet(s \o u)
  BY <1>1 DEF ToSet
<1>4. ASSUME NEW n \in 1..Len(u) PROVE u[n] \in ToSet(s \o u)
  <2>1. n + Len(s) \in 1..(Len(s) + Len(u)) /\ (s \o u)[n + Len(s)] = u[n]
    BY <1>1
  <2> QED
    BY <1>1, <2>1 DEF ToSet
<1> QED
  BY <1>1, <1>2, <1>3, <1>4 DEF ToSet

LEMMA Inserted ==
    ASSUME NEW S, NEW s \in Seq(S), NEW e \in S, NEW i \in 1..(Len(s) + 1)
    PROVE  InsertAt(s, i, e) \in Seq(S) /\ ToSet(InsertAt(s, i, e)) = ToSet(s) \cup {e}
<1> DEFINE front == SubSeq(s, 1, i - 1)
           one == <<e>>
           back == SubSeq(s, i, Len(s))
<1>1. Len(s) \in Nat /\ DOMAIN s = 1..Len(s)
  BY LenProperties
<1>2. /\ front \in Seq(S) /\ DOMAIN front = 1..(i - 1)
      /\ \A n \in 1..(i - 1) : front[n] = s[n]
  BY FrontSlice, LenProperties
<1>3. /\ back \in Seq(S) /\ DOMAIN back = 1..(Len(s) - i + 1)
      /\ \A n \in 1..(Len(s) - i + 1) : back[n] = s[n + i - 1]
  BY BackSlice, LenProperties
<1>4. one \in Seq(S) /\ ToSet(one) = {e}
  BY DEF ToSet
<1>h. InsertAt(s, i, e) = front \o one \o back
  BY DEF InsertAt
<1> HIDE DEF front, one, back
<1>5. /\ InsertAt(s, i, e) \in Seq(S)
      /\ ToSet(InsertAt(s, i, e)) = ToSet(front) \cup {e} \cup ToSet(back)
  <2>1. front \o one \in Seq(S) /\ ToSet(front \o one) = ToSet(front) \cup {e}
    BY <1>2, <1>4, Joined
  <2>2. /\ (front \o one) \o back \in Seq(S)
        /\ ToSet((front \o one) \o back) = ToSet(front \o one) \cup ToSet(back)
    BY <2>1, <1>3, Joined
  <2> QED
    BY <2>1, <2>2, <1>h
<1>6. ToSet(s) = ToSet(front) \cup ToSet(back)
  <2>1. ASSUME NEW n \in 1..Len(s) PROVE s[n] \in ToSet(front) \cup ToSet(back)
    <3>1. CASE n < i
      BY <1>2, <3>1 DEF ToSet
    <3>2. CASE n >= i
      <4>1. n - i + 1 \in 1..(Len(s) - i + 1) /\ (n - i + 1) + i - 1 = n
        BY <1>1, <3>2
      <4>2. back[n - i + 1] = s[n]
        BY <1>3, <4>1
      <4> QED
        BY <1>3, <4>1, <4>2 DEF ToSet
    <3> QED
      BY <3>1, <3>2
  <2>2. \A n \in 1..(i - 1) : front[n] \in ToSet(s)
    BY <1>1, <1>2 DEF ToSet
  <2>3. \A n \in 1..(Len(s) - i + 1) : back[n] \in ToSet(s)
    BY <1>1, <1>3 DEF ToSet
  <2> QED
    BY <1>1, <1>2, <1>3, <2>1, <2>2, <2>3 DEF ToSet
<1> QED
  BY <1>5, <1>6

LEMMA Removed ==
    ASSUME NEW S, NEW s \in Seq(S), NEW k \in 1..Len(s)
    PROVE  /\ RemoveAt(s, k) \in Seq(S) /\ Len(RemoveAt(s, k)) = Len(s) - 1
           /\ \A n \in 1..Len(s) : n # k => s[n] \in ToSet(RemoveAt(s, k))
           /\ ToSet(RemoveAt(s, k)) \subseteq ToSet(s)
<1> DEFINE front == SubSeq(s, 1, k - 1)
           back == SubSeq(s, k + 1, Len(s))
<1>1. Len(s) \in Nat /\ DOMAIN s = 1..Len(s)
  BY LenProperties
<1>2. /\ front \in Seq(S) /\ DOMAIN front = 1..(k - 1) /\ Len(front) = k - 1
      /\ \A n \in 1..(k - 1) : front[n] = s[n]
  BY <1>1, FrontSlice, LenProperties
<1>3. /\ back \in Seq(S) /\ DOMAIN back = 1..(Len(s) - k) /\ Len(back) = Len(s) - k
      /\ \A n \in 1..(Len(s) - k) : back[n] = s[n + k]
  <2>1. k + 1 \in 1..(Len(s) + 1) /\ Len(s) - (k + 1) + 1 = Len(s) - k
    BY <1>1
  <2>2. /\ back \in Seq(S) /\ Len(back) = Len(s) - (k + 1) + 1
        /\ \A n \in 1..(Len(s) - (k + 1) + 1) : back[n] = s[n + (k + 1) - 1]
    BY <2>1, BackSlice
  <2>3. DOMAIN back = 1..Len(back)
    BY <2>2, LenProperties
  <2>4. \A n \in 1..(Len(s) - k) : n + (k + 1) - 1 = n + k
    BY <1>1
  <2> HIDE DEF back
  <2> QED
    BY <2>1, <2>2, <2>3, <2>4
<1>h. RemoveAt(s, k) = front \o back
  BY DEF RemoveAt
<1> HIDE DEF front, back
<1>4. /\ RemoveAt(s, k) \in Seq(S) /\ ToSet(RemoveAt(s, k)) = ToSet(front) \cup ToSet(back)
      /\ Len(RemoveAt(s, k)) = Len(s) - 1
  <2>1. front \o back \in Seq(S) /\ ToSet(front \o back) = ToSet(front) \cup ToSet(back)
    BY <1>2, <1>3, Joined
  <2>2. Len(front \o back) = Len(front) + Len(back)
    BY <1>2, <1>3, ConcatProperties
  <2>3. Len(front) + Len(back) = Len(s) - 1
    BY <1>1, <1>2, <1>3
  <2> QED
    BY <2>1, <2>2, <2>3, <1>h
<1>5. ASSUME NEW n \in 1..Len(s), n # k PROVE s[n] \in ToSet(front) \cup ToSet(back)
  <2>1. CASE n < k
    BY <1>1, <1>2, <2>1 DEF ToSet
  <2>2. CASE n > k
    <3>1. n - k \in 1..(Len(s) - k) /\ back[n - k] = s[n]
      BY <1>1, <1>3, <2>2
    <3> QED
      BY <1>3, <3>1 DEF ToSet
  <2> QED
    BY <1>1, <1>5, <2>1, <2>2
<1>6. ToSet(front) \subseteq ToSet(s) /\ ToSet(back) \subseteq ToSet(s)
  <2>1. \A n \in 1..(k - 1) : front[n] \in ToSet(s)
    BY <1>1, <1>2 DEF ToSet
  <2>2. ASSUME NEW n \in 1..(Len(s) - k) PROVE back[n] \in ToSet(s)
    <3>1. n + k \in DOMAIN s /\ back[n] = s[n + k]
      BY <1>1, <1>3
    <3> QED
      BY <3>1 DEF ToSet
  <2> QED
    BY <1>2, <1>3, <2>1, <2>2 DEF ToSet
<1> QED
  BY <1>1, <1>4, <1>5, <1>6

LEMMA Mapped ==
    ASSUME NEW S, NEW s \in Seq(S), NEW f, f = [n \in DOMAIN s |-> f[n]]
    PROVE  f \in Seq(ToSet(f)) /\ DOMAIN f = DOMAIN s
<1>1. DOMAIN f = DOMAIN s
  BY Zenon
<1>2. Len(s) \in Nat /\ DOMAIN s = 1..Len(s)
  BY LenProperties
<1>3. f = [n \in 1..Len(s) |-> f[n]] /\ \A n \in 1..Len(s) : f[n] \in ToSet(f)
  BY <1>1, <1>2 DEF ToSet
<1>4. [n \in 1..Len(s) |-> f[n]] \in Seq(ToSet(f))
  BY <1>2, <1>3, IsASeq
<1> QED
  BY <1>1, <1>3, <1>4
-----------------------------------------------------------------------------
(* Commands.                                                                *)

LEMMA Chosen ==
    ASSUME NEW id \in BlockIds
    PROVE  BlockOf(id) \in ToSet(blocks) /\ BlockOf(id).id = id
BY DEF BlockIds, IdsOf, BlockOf, ToSet

LEMMA Untouched ==
    ASSUME NEW ids, NEW b, NEW k, NEW v, NEW e, e = [b EXCEPT ![k] = v],
           Shaped(b), SoundIn(ids, b), k # "id", k # "conns"
    PROVE  Shaped(e) /\ e.id = b.id /\ SoundIn(ids, e)
<1>1. Shaped(e) /\ e.id = b.id /\ e.conns = b.conns
  BY DEF Shaped
<1> QED
  BY <1>1 DEF SoundIn

LEMMA Limited ==
    ASSUME NEW ids, NEW b, NEW id, NEW max, Shaped(b), SoundIn(ids, b)
    PROVE  LET e == WithMaxRate(b, id, max) IN Shaped(e) /\ e.id = b.id /\ SoundIn(ids, e)
<1> DEFINE Limit(c) == IF c.id = id THEN Connection(id, c.item, c.from, max) ELSE c
           e == WithMaxRate(b, id, max)
<1>1. Shaped(e) /\ e.id = b.id /\ e.conns = {Limit(c) : c \in b.conns}
  BY DEF Shaped, WithMaxRate
<1>2. \A c : Limit(c).item = c.item /\ Limit(c).from = c.from
  BY DEF Connection
<1> HIDE DEF e, Limit
<1>3. SoundIn(ids, e)
  BY <1>1, <1>2 DEF SoundIn
<1> QED
  BY <1>1, <1>3 DEF e

(* A command keeps the identity of its block, and its connections are sound *)
(* after it, if it adds one only where one may be added.                    *)
LEMMA AppliedSound ==
    ASSUME NEW ids, NEW b, NEW c, Shaped(b), SoundIn(ids, b),
           c.do = "connect" => CanConnect(ids, b, c.conn.item, c.conn.from)
    PROVE  /\ Shaped(Applied(c, b)) /\ Applied(c, b).id = b.id
           /\ SoundIn(ids, Applied(c, b))
<1>1. CASE c.do = "connect"
  <2>1. Applied(c, b) = [b EXCEPT !.conns = @ \cup {c.conn}]
    BY <1>1 DEF Applied
  <2>2. /\ Shaped(Applied(c, b)) /\ Applied(c, b).id = b.id
        /\ Applied(c, b).conns = b.conns \cup {c.conn}
    BY <2>1 DEF Shaped
  <2> QED
    BY <1>1, <2>2 DEF SoundIn, CanConnect
<1>2. CASE c.do = "disconnect"
  <2>1. Applied(c, b) = [b EXCEPT !.conns = {d \in @ : d.id # c.conn.id}]
    BY <1>2 DEF Applied, WithoutConn
  <2>2. /\ Shaped(Applied(c, b)) /\ Applied(c, b).id = b.id
        /\ Applied(c, b).conns \subseteq b.conns
    BY <2>1 DEF Shaped
  <2> QED
    BY <2>2 DEF SoundIn
<1>3. CASE c.do = "limit"
  <2>1. Applied(c, b) = WithMaxRate(b, c.id, c.new)
    BY <1>3 DEF Applied
  <2> QED
    BY <2>1, Limited
<1>4. CASE c.do \notin {"connect", "disconnect", "limit"}
  <2>1. \E k \in {"products", "noImport", "sourcing", "plans"} : \E v : Applied(c, b) = [b EXCEPT ![k] = v]
    BY <1>4 DEF Applied, WithoutProduct, WithExtra, WithSourcing
  <2>2. PICK k \in {"products", "noImport", "sourcing", "plans"} : \E v : Applied(c, b) = [b EXCEPT ![k] = v]
    BY <2>1
  <2>3. PICK v : Applied(c, b) = [b EXCEPT ![k] = v]
    BY <2>2
  <2> QED
    BY <2>3, Untouched
<1> QED
  BY <1>1, <1>2, <1>3, <1>4

(* The same of its undo.                                                    *)
LEMMA UndoneSound ==
    ASSUME NEW ids, NEW b, NEW c, Shaped(b), SoundIn(ids, b), CanUndo(c, ids, b)
    PROVE  /\ Shaped(Undone(c, b)) /\ Undone(c, b).id = b.id
           /\ SoundIn(ids, Undone(c, b))
<1>1. CASE c.do = "disconnect"
  <2>1. Undone(c, b) = [b EXCEPT !.conns = @ \cup {c.conn}]
    BY <1>1 DEF Undone
  <2>2. /\ Shaped(Undone(c, b)) /\ Undone(c, b).id = b.id
        /\ Undone(c, b).conns = b.conns \cup {c.conn}
    BY <2>1 DEF Shaped
  <2>3. CanConnect(ids, b, c.conn.item, c.conn.from)
    BY <1>1 DEF CanUndo
  <2> QED
    BY <2>2, <2>3 DEF SoundIn, CanConnect
<1>2. CASE c.do = "connect"
  <2>1. Undone(c, b) = [b EXCEPT !.conns = {d \in @ : d.id # c.conn.id}]
    BY <1>2 DEF Undone, WithoutConn
  <2>2. /\ Shaped(Undone(c, b)) /\ Undone(c, b).id = b.id
        /\ Undone(c, b).conns \subseteq b.conns
    BY <2>1 DEF Shaped
  <2> QED
    BY <2>2 DEF SoundIn
<1>3. CASE c.do = "limit"
  <2>1. Undone(c, b) = WithMaxRate(b, c.id, c.old)
    BY <1>3 DEF Undone
  <2> QED
    BY <2>1, Limited
<1>4. CASE c.do \notin {"connect", "disconnect", "limit"}
  <2>1. \E k \in {"products", "noImport", "sourcing", "plans"} : \E v : Undone(c, b) = [b EXCEPT ![k] = v]
    BY <1>4 DEF Undone, WithoutProduct, WithExtra, WithSourcing
  <2>2. PICK k \in {"products", "noImport", "sourcing", "plans"} : \E v : Undone(c, b) = [b EXCEPT ![k] = v]
    BY <2>1
  <2>3. PICK v : Undone(c, b) = [b EXCEPT ![k] = v]
    BY <2>2
  <2> QED
    BY <2>3, Untouched
<1> QED
  BY <1>1, <1>2, <1>3, <1>4

-----------------------------------------------------------------------------
(* One block changed, the others as they were.                              *)

LEMMA ReplacedIn ==
    ASSUME EInv, NEW e, NEW ids, BlockIds \subseteq ids,
           Shaped(e), e.id \in BlockIds, SoundIn(ids, e)
    PROVE  /\ WithBlock(e) \in Seq(ToSet(WithBlock(e))) /\ IdsOf(WithBlock(e)) = BlockIds
           /\ \A b \in ToSet(WithBlock(e)) : Shaped(b) /\ b.id \in 0..(next - 1) /\ SoundIn(ids, b)
<1> DEFINE bs == WithBlock(e)
<1>1. blocks \in Seq(ToSet(blocks)) /\ next \in Nat
  BY DEF EInv, PlanGood
<1>2. bs \in Seq(ToSet(bs)) /\ DOMAIN bs = DOMAIN blocks
  <2>1. bs = [k \in DOMAIN blocks |-> bs[k]]
    BY Zenon DEF WithBlock
  <2> HIDE DEF bs
  <2> QED
    BY <1>1, <2>1, Mapped
<1>3. \A k \in DOMAIN blocks : bs[k] = (IF blocks[k].id = e.id THEN e ELSE blocks[k])
  BY DEF WithBlock
<1> HIDE DEF bs
<1>4. \A k \in DOMAIN blocks : bs[k].id = blocks[k].id
  BY <1>3
<1>5. IdsOf(bs) = BlockIds
  BY <1>2, <1>4 DEF IdsOf, BlockIds
<1>6. ASSUME NEW b \in ToSet(bs) PROVE b = e \/ b \in ToSet(blocks)
  BY <1>2, <1>3 DEF ToSet
<1>7. \A b \in ToSet(blocks) : Shaped(b) /\ b.id \in 0..(next - 1) /\ SoundIn(BlockIds, b)
  BY DEF EInv, PlanGood, BlockIds
<1>8. \A b \in ToSet(blocks) : SoundIn(ids, b)
  BY <1>7 DEF SoundIn
<1>9. e.id \in 0..(next - 1)
  BY <1>7 DEF BlockIds, IdsOf, ToSet
<1>10. \A b \in ToSet(bs) : Shaped(b) /\ b.id \in 0..(next - 1) /\ SoundIn(ids, b)
  BY <1>6, <1>7, <1>8, <1>9
<1> QED
  BY <1>2, <1>5, <1>10 DEF bs

LEMMA Replaced ==
    ASSUME EInv, NEW e, NEW a, NEW n \in Nat, n >= next, a \in BlockIds,
           Shaped(e), e.id \in BlockIds, SoundIn(BlockIds, e)
    PROVE  PlanGood(WithBlock(e), a, n)
<1> DEFINE bs == WithBlock(e)
<1>1. /\ bs \in Seq(ToSet(bs)) /\ IdsOf(bs) = BlockIds
      /\ \A b \in ToSet(bs) : Shaped(b) /\ b.id \in 0..(next - 1) /\ SoundIn(BlockIds, b)
  BY ReplacedIn
<1>2. next \in Nat
  BY DEF EInv, PlanGood
<1> HIDE DEF bs
<1>3. PlanGood(bs, a, n)
  BY <1>1, <1>2 DEF PlanGood
<1> QED
  BY <1>3 DEF bs

LEMMA OneOfThem ==
    ASSUME EInv, NEW id \in BlockIds
    PROVE  Shaped(BlockOf(id)) /\ BlockOf(id).id = id /\ SoundIn(BlockIds, BlockOf(id))
BY Chosen DEF EInv, PlanGood, BlockIds

(* An edit that makes no connection, or a connection the rules allow.       *)
LEMMA EditKeeps ==
    ASSUME EInv, NEW c, NEW id \in BlockIds, Edits(c, id), next' \in Nat, next' >= next,
           c.do = "connect" => CanConnect(BlockIds, BlockOf(id), c.conn.item, c.conn.from)
    PROVE  EInv'
<1> DEFINE e == Applied(c, BlockOf(id))
<1>1. Shaped(e) /\ e.id = id /\ SoundIn(BlockIds, e)
  BY OneOfThem, AppliedSound
<1>2. blocks' = WithBlock(e) /\ active' = active
  BY DEF Edits, ApplyCommand
<1>3. active \in BlockIds
  BY DEF EInv, PlanGood, BlockIds
<1> HIDE DEF e
<1>4. PlanGood(WithBlock(e), active, next')
  BY <1>1, <1>3, Replaced
<1> QED
  BY <1>2, <1>4 DEF EInv

(* Most edits are a command of some block that makes no connection.         *)
Plain(c, id) ==
    id \in BlockIds /\ Edits(c, id) /\ c.do # "connect" /\ next' \in Nat /\ next' >= next

LEMMA PlainKeeps ==
    ASSUME EInv, \E c : \E id : Plain(c, id)
    PROVE  EInv'
<1>1. PICK c, id : Plain(c, id)
  OBVIOUS
<1> QED
  BY <1>1, EditKeeps DEF Plain

LEMMA ProductsKeep ==
    ASSUME EInv, EditProducts \/ EditItems
    PROVE  EInv'
<1> USE DEF Draws, Plain
<1>1. active \in BlockIds /\ next \in Nat
  BY DEF EInv, PlanGood, BlockIds
<1>2. ASSUME AddProduct PROVE \E c : \E id : Plain(c, id)
  BY <1>1, <1>2 DEF AddProduct
<1>3. ASSUME RemoveProduct PROVE \E c : \E id : Plain(c, id)
  BY <1>1, <1>3 DEF RemoveProduct
<1>4. ASSUME UpdateProductExtra PROVE \E c : \E id : Plain(c, id)
  BY <1>1, <1>4 DEF UpdateProductExtra
<1>5. ASSUME ToggleNoImportItem PROVE \E c : \E id : Plain(c, id)
  BY <1>1, <1>5 DEF ToggleNoImportItem
<1>6. ASSUME SetItemSourcing PROVE \E c : \E id : Plain(c, id)
  BY <1>1, <1>6 DEF SetItemSourcing
<1> QED
  BY <1>2, <1>3, <1>4, <1>5, <1>6, PlainKeeps DEF EditProducts, EditItems

LEMMA SubPlansKeep ==
    ASSUME EInv, EditSubPlans
    PROVE  EInv'
<1> USE DEF Draws, Plain
<1>1. active \in BlockIds /\ next \in Nat
  BY DEF EInv, PlanGood, BlockIds
<1>2. ASSUME AddSubPlan PROVE \E c : \E id : Plain(c, id)
  BY <1>1, <1>2 DEF AddSubPlan
<1>3. ASSUME RemoveSubPlan PROVE \E c : \E id : Plain(c, id)
  BY <1>1, <1>3 DEF RemoveSubPlan
<1>4. ASSUME DuplicateSubPlanTo PROVE \E c : \E id : Plain(c, id)
  BY <1>1, <1>4 DEF DuplicateSubPlanTo
<1>5. ASSUME SetSubPlanArea PROVE \E c : \E id : Plain(c, id)
  BY <1>1, <1>5 DEF SetSubPlanArea
<1>6. ASSUME RenameSubPlan PROVE \E c : \E id : Plain(c, id)
  BY <1>1, <1>6 DEF RenameSubPlan
<1>7. ASSUME WrapNodeInSubPlan PROVE \E c : \E id : Plain(c, id)
  BY <1>1, <1>7 DEF WrapNodeInSubPlan
<1> QED
  BY <1>2, <1>3, <1>4, <1>5, <1>6, <1>7, PlainKeeps DEF EditSubPlans

LEMMA RowsKeep ==
    ASSUME EInv, EditRows
    PROVE  EInv'
<1> USE DEF Draws, Plain
<1>1. active \in BlockIds /\ next \in Nat
  BY DEF EInv, PlanGood, BlockIds
<1>2. ASSUME AddNode PROVE \E c : \E id : Plain(c, id)
  BY <1>1, <1>2 DEF AddNode
<1>3. ASSUME BuildRowAlsoIn PROVE \E c : \E id : Plain(c, id)
  BY <1>1, <1>3 DEF BuildRowAlsoIn
<1>4. ASSUME RemoveNode PROVE \E c : \E id : Plain(c, id)
  BY <1>1, <1>4 DEF RemoveNode
<1>5. ASSUME MoveNodeUp PROVE \E c : \E id : Plain(c, id)
  BY <1>1, <1>5 DEF MoveNodeUp
<1>6. ASSUME MoveNodeDown PROVE \E c : \E id : Plain(c, id)
  BY <1>1, <1>6 DEF MoveNodeDown
<1>7. ASSUME MoveNode PROVE \E c : \E id : Plain(c, id)
  BY <1>1, <1>7 DEF MoveNode
<1> QED
  BY <1>2, <1>3, <1>4, <1>5, <1>6, <1>7, PlainKeeps DEF EditRows

LEMMA SettingsKeep ==
    ASSUME EInv, EditSettings
    PROVE  EInv'
<1> USE DEF Plain
<1>1. active \in BlockIds /\ next \in Nat
  BY DEF EInv, PlanGood, BlockIds
<1>2. ASSUME UpdateNodeMachine PROVE \E c : \E id : Plain(c, id)
  BY <1>1, <1>2 DEF UpdateNodeMachine, WritesMachine
<1>3. ASSUME UpdateNodeFuel PROVE \E c : \E id : Plain(c, id)
  BY <1>1, <1>3 DEF UpdateNodeFuel
<1>4. ASSUME UpdateNodeRecipe PROVE \E c : \E id : Plain(c, id)
  BY <1>1, <1>4 DEF UpdateNodeRecipe
<1>5. ASSUME ApplyRowSettingsToRecipe PROVE \E c : \E id : Plain(c, id)
  BY <1>1, <1>5 DEF ApplyRowSettingsToRecipe
<1> QED
  BY <1>2, <1>3, <1>4, <1>5, PlainKeeps DEF EditSettings

LEMMA ConnectionsKeep ==
    ASSUME EInv, EditConnections
    PROVE  EInv'
<1>1. next \in Nat
  BY DEF EInv, PlanGood
<1>2. CASE AddInputConnection
  <2>1. PICK to \in BlockIds, from \in BlockIds, i \in Items :
          /\ CanConnect(BlockIds, BlockOf(to), i, from)
          /\ Edits([do |-> "connect", conn |-> Connection(next, i, from, Nothing)], to)
          /\ Draws(1)
    BY <1>2 DEF AddInputConnection
  <2> DEFINE c == [do |-> "connect", conn |-> Connection(next, i, from, Nothing)]
  <2>2. c.conn.item = i /\ c.conn.from = from
    BY DEF Connection
  <2>3. Edits(c, to) /\ next' \in Nat /\ next' >= next
    BY <1>1, <2>1 DEF Draws
  <2> HIDE DEF c
  <2> QED
    BY <2>1, <2>2, <2>3, EditKeeps
<1>3. ASSUME RemoveInputConnection PROVE \E c : \E id : Plain(c, id)
  BY <1>1, <1>3 DEF RemoveInputConnection, Plain
<1>4. ASSUME SetConnectionMaxRate PROVE \E c : \E id : Plain(c, id)
  BY <1>1, <1>4 DEF SetConnectionMaxRate, Plain
<1> QED
  BY <1>2, <1>3, <1>4, PlainKeeps DEF EditConnections

LEMMA HistoryKeeps ==
    ASSUME EInv, Undo \/ Redo
    PROVE  EInv'
<1>1. next \in Nat /\ active \in BlockIds
  BY DEF EInv, PlanGood, BlockIds
<1>2. Shaped(Active) /\ Active.id = active /\ SoundIn(BlockIds, Active)
  BY <1>1, OneOfThem DEF Active
<1>3. ASSUME NEW e, Shaped(e), e.id = active, SoundIn(BlockIds, e),
             blocks' = WithBlock(e), UNCHANGED <<active, next>>
      PROVE  EInv'
  BY <1>1, <1>3, Replaced DEF EInv
<1>4. ASSUME UNCHANGED <<blocks, active, next>> PROVE EInv'
  BY <1>4 DEF EInv
<1>5. CASE Undo
  <2> DEFINE c == Last(HistoryOf(active).undo).cmd
  <2>1. /\ UNCHANGED <<active, next>>
        /\ \/ CanUndo(c, BlockIds, Active) /\ blocks' = WithBlock(Undone(c, Active))
           \/ blocks' = blocks
    BY <1>5 DEF Undo
  <2> HIDE DEF c
  <2>2. CASE CanUndo(c, BlockIds, Active) /\ blocks' = WithBlock(Undone(c, Active))
    BY <1>2, <1>3, <2>1, <2>2, UndoneSound
  <2> QED
    BY <1>4, <2>1, <2>2
<1>6. CASE Redo
  <2> DEFINE c == Last(HistoryOf(active).redo).cmd
  <2>1. /\ UNCHANGED <<active, next>>
        /\ \/ CanApply(c, BlockIds, Active) /\ blocks' = WithBlock(Applied(c, Active))
           \/ blocks' = blocks
    BY <1>6 DEF Redo
  <2>2. CanApply(c, BlockIds, Active) /\ c.do = "connect"
          => CanConnect(BlockIds, Active, c.conn.item, c.conn.from)
    BY DEF CanApply
  <2> HIDE DEF c
  <2>3. CASE CanApply(c, BlockIds, Active) /\ blocks' = WithBlock(Applied(c, Active))
    BY <1>2, <1>3, <2>1, <2>2, <2>3, AppliedSound
  <2> QED
    BY <1>4, <2>1, <2>3
<1> QED
  BY <1>5, <1>6

-----------------------------------------------------------------------------
(* Blocks added, removed, copied and moved.                                 *)

(* A block with an id not drawn before, which reads from the others.        *)
LEMMA Added ==
    ASSUME NEW n \in Nat, NEW m \in Nat, NEW e, NEW bs, NEW cs,
           \A b \in ToSet(bs) : /\ Shaped(b) /\ b.id \in 0..(n - 1)
                                /\ SoundIn(IdsOf(bs) \cup {e.id}, b),
           Shaped(e), e.id \in n..(m - 1), SoundIn(IdsOf(bs), e),
           cs \in Seq(ToSet(bs) \cup {e}), ToSet(cs) = ToSet(bs) \cup {e}
    PROVE  PlanGood(cs, e.id, m)
<1>1. IdsOf(cs) = {b.id : b \in ToSet(cs)} /\ IdsOf(bs) = {b.id : b \in ToSet(bs)}
  BY DEF IdsOf, ToSet
<1>2. IdsOf(cs) = IdsOf(bs) \cup {e.id}
  BY <1>1
<1>3. SoundIn(IdsOf(cs), e)
  BY <1>2 DEF SoundIn
<1>4. ASSUME NEW b \in ToSet(cs)
      PROVE  Shaped(b) /\ b.id \in 0..(m - 1) /\ SoundIn(IdsOf(cs), b)
  <2>1. CASE b = e
    BY <1>3, <2>1
  <2>2. CASE b \in ToSet(bs)
    <3>1. Shaped(b) /\ b.id \in 0..(n - 1) /\ SoundIn(IdsOf(bs) \cup {e.id}, b)
      BY <2>2
    <3>2. b.id \in 0..(m - 1)
      <4>1. n <= m - 1
        OBVIOUS
      <4> QED
        BY <3>1, <4>1
    <3> QED
      BY <1>2, <3>1, <3>2
  <2> QED
    BY <2>1, <2>2
<1>5. cs \in Seq(ToSet(cs)) /\ e.id \in IdsOf(cs)
  BY <1>2
<1> QED
  BY <1>4, <1>5 DEF PlanGood

LEMMA AtEnd ==
    ASSUME NEW bs, NEW e, bs \in Seq(ToSet(bs))
    PROVE  /\ Append(bs, e) \in Seq(ToSet(bs) \cup {e})
           /\ ToSet(Append(bs, e)) = ToSet(bs) \cup {e}
<1> DEFINE cs == Append(bs, e)
           S == ToSet(bs) \cup {e}
<1>1. bs \in Seq(S)
  BY InRange
<1> HIDE DEF S
<1>2. e \in S
  BY DEF S
<1>3. /\ cs \in Seq(S) /\ Len(cs) = Len(bs) + 1 /\ cs[Len(bs) + 1] = e
      /\ \A i \in 1..Len(bs) : cs[i] = bs[i]
  BY <1>1, <1>2, AppendProperties
<1>4. /\ DOMAIN cs = 1..(Len(bs) + 1) /\ DOMAIN bs = 1..Len(bs) /\ Len(bs) \in Nat
  BY <1>1, <1>3, LenProperties
<1> HIDE DEF cs
<1>5. ToSet(bs) \subseteq ToSet(cs) /\ e \in ToSet(cs)
  BY <1>3, <1>4 DEF ToSet
<1>6. ToSet(cs) \subseteq ToSet(bs) \cup {e}
  BY <1>3, <1>4 DEF ToSet
<1> QED
  BY <1>3, <1>5, <1>6 DEF cs, S

LEMMA Weaker ==
    ASSUME NEW b, NEW ids, NEW more, ids \subseteq more, SoundIn(ids, b)
    PROVE  SoundIn(more, b)
BY DEF SoundIn

LEMMA AddKeeps ==
    ASSUME EInv, AddBlock
    PROVE  EInv'
<1> DEFINE e == EmptyBlock(next, <<>>)
<1>1. /\ next \in Nat /\ blocks \in Seq(ToSet(blocks))
      /\ \A b \in ToSet(blocks) : Shaped(b) /\ b.id \in 0..(next - 1) /\ SoundIn(IdsOf(blocks), b)
  BY DEF EInv, PlanGood
<1>2. blocks' = Append(blocks, e) /\ active' = next /\ next' = next + 2
  BY DEF AddBlock, Draws
<1>3. Shaped(e) /\ e.id = next /\ e.conns = {}
  BY DEF EmptyBlock, Shaped
<1> HIDE DEF e
<1>4. SoundIn(IdsOf(blocks), e)
  BY <1>3 DEF SoundIn
<1>5. \A b \in ToSet(blocks) : SoundIn(IdsOf(blocks) \cup {e.id}, b)
  BY <1>1, Weaker
<1>6. e.id \in next..(next' - 1) /\ next' \in Nat
  BY <1>1, <1>2, <1>3
<1>7. blocks' \in Seq(ToSet(blocks) \cup {e}) /\ ToSet(blocks') = ToSet(blocks) \cup {e}
  BY <1>1, <1>2, AtEnd
<1>8. PlanGood(blocks', e.id, next')
  BY <1>1, <1>3, <1>4, <1>5, <1>6, <1>7, Added
<1> QED
  BY <1>2, <1>3, <1>8 DEF EInv

LEMMA AddForItemKeeps ==
    ASSUME EInv, AddBlockForItem
    PROVE  EInv'
<1>1. PICK to \in BlockIds, i \in Items :
        LET new == EmptyBlock(next, <<[id |-> next + 2, item |-> i, extra |-> Nothing]>>)
            c == [do |-> "connect", conn |-> Connection(next + 3, i, new.id, Nothing)]
        IN  /\ CanConnect(BlockIds \cup {new.id}, BlockOf(to), i, new.id)
            /\ blocks' = Append(WithBlock(Applied(c, BlockOf(to))), new)
            /\ active' = new.id
            /\ Draws(4)
  BY DEF AddBlockForItem
<1> DEFINE new == EmptyBlock(next, <<[id |-> next + 2, item |-> i, extra |-> Nothing]>>)
           c == [do |-> "connect", conn |-> Connection(next + 3, i, new.id, Nothing)]
           ids == BlockIds \cup {new.id}
           e == Applied(c, BlockOf(to))
           bs == WithBlock(e)
<1>2. /\ CanConnect(ids, BlockOf(to), i, new.id) /\ blocks' = Append(bs, new)
      /\ active' = new.id /\ next' = next + 4
  BY <1>1 DEF Draws
<1>3. c.conn.item = i /\ c.conn.from = new.id /\ c.do = "connect"
  BY DEF Connection
<1>4. Shaped(new) /\ new.id = next /\ new.conns = {}
  BY DEF EmptyBlock, Shaped
<1> HIDE DEF new, c
<1>5. Shaped(BlockOf(to)) /\ BlockOf(to).id = to /\ SoundIn(ids, BlockOf(to))
  BY OneOfThem, Weaker
<1>6. Shaped(e) /\ e.id = to /\ SoundIn(ids, e)
  BY <1>2, <1>3, <1>5, AppliedSound
<1> HIDE DEF e
<1>7. /\ bs \in Seq(ToSet(bs)) /\ IdsOf(bs) = BlockIds
      /\ \A b \in ToSet(bs) : Shaped(b) /\ b.id \in 0..(next - 1) /\ SoundIn(ids, b)
  BY <1>6, ReplacedIn
<1> HIDE DEF bs
<1>8. SoundIn(IdsOf(bs), new)
  BY <1>4 DEF SoundIn
<1>9. next \in Nat /\ next' \in Nat /\ new.id \in next..(next' - 1)
  BY <1>2, <1>4 DEF EInv, PlanGood
<1>10. blocks' \in Seq(ToSet(bs) \cup {new}) /\ ToSet(blocks') = ToSet(bs) \cup {new}
  BY <1>2, <1>7, AtEnd
<1>11. PlanGood(blocks', new.id, next')
  BY <1>4, <1>7, <1>8, <1>9, <1>10, Added
<1> QED
  BY <1>2, <1>11 DEF EInv

LEMMA DuplicateKeeps ==
    ASSUME EInv, DuplicateBlock
    PROVE  EInv'
<1>1. /\ next \in Nat /\ blocks \in Seq(ToSet(blocks))
      /\ \A b \in ToSet(blocks) : Shaped(b) /\ b.id \in 0..(next - 1) /\ SoundIn(IdsOf(blocks), b)
  BY DEF EInv, PlanGood
<1>2. PICK n \in DOMAIN blocks :
        /\ blocks' = InsertAt(blocks, n + 1, CloneBlock(blocks[n], next))
        /\ active' = blocks[n].id + next /\ next' = next + next
  BY DEF DuplicateBlock, Draws
<1> DEFINE b == blocks[n]
           e == CloneBlock(b, next)
<1>3. b \in ToSet(blocks)
  BY DEF ToSet
<1>4. /\ Shaped(e) /\ e.id = b.id + next
      /\ e.conns = {Connection(c.id + next, c.item, c.from, c.max) : c \in b.conns}
  BY <1>1, <1>3 DEF CloneBlock, Shaped
<1> HIDE DEF e, b
<1>5. b.id \in 0..(next - 1) /\ SoundIn(IdsOf(blocks), b) /\ IdsOf(blocks) \subseteq 0..(next - 1)
  BY <1>1, <1>3 DEF IdsOf, ToSet
<1>6. SoundIn(IdsOf(blocks), e)
  <2> DEFINE f(c) == Connection(c.id + next, c.item, c.from, c.max)
  <2>1. \A c : f(c).item = c.item /\ f(c).from = c.from
    BY DEF Connection
  <2>2. e.conns = {f(c) : c \in b.conns}
    BY <1>4
  <2>3. \A k \in IdsOf(blocks) : k # e.id
    BY <1>1, <1>4, <1>5
  <2> HIDE DEF f
  <2> QED
    BY <1>5, <2>1, <2>2, <2>3 DEF SoundIn
<1>7. \A x \in ToSet(blocks) : SoundIn(IdsOf(blocks) \cup {e.id}, x)
  BY <1>1, Weaker
<1>8. e.id \in next..(next' - 1) /\ next' \in Nat
  BY <1>1, <1>2, <1>4, <1>5
<1>9. blocks' \in Seq(ToSet(blocks) \cup {e}) /\ ToSet(blocks') = ToSet(blocks) \cup {e}
  <2> DEFINE S == ToSet(blocks) \cup {e}
  <2>1. blocks \in Seq(S) /\ n + 1 \in 1..(Len(blocks) + 1)
    BY <1>1, InRange, LenProperties
  <2>2. e \in S
    OBVIOUS
  <2>3. blocks' = InsertAt(blocks, n + 1, e)
    BY <1>2 DEF e, b
  <2> HIDE DEF S
  <2>4. InsertAt(blocks, n + 1, e) \in Seq(S) /\ ToSet(InsertAt(blocks, n + 1, e)) = ToSet(blocks) \cup {e}
    BY <2>1, <2>2, Inserted
  <2> QED
    BY <2>3, <2>4 DEF S
<1>10. PlanGood(blocks', e.id, next')
  BY <1>1, <1>4, <1>6, <1>7, <1>8, <1>9, Added
<1> QED
  BY <1>2, <1>4, <1>10 DEF EInv, b

(* The block goes, and with it the connections that read from it.           *)
LEMMA RemoveKeeps ==
    ASSUME EInv, RemoveBlock
    PROVE  EInv'
<1>1. /\ next \in Nat /\ blocks \in Seq(ToSet(blocks)) /\ active \in IdsOf(blocks)
      /\ \A b \in ToSet(blocks) : Shaped(b) /\ b.id \in 0..(next - 1) /\ SoundIn(IdsOf(blocks), b)
  BY DEF EInv, PlanGood
<1>2. Len(blocks) \in Nat /\ DOMAIN blocks = 1..Len(blocks)
  BY <1>1, LenProperties
<1>3. PICK k \in DOMAIN blocks :
        LET id == blocks[k].id
            left == RemoveAt(blocks, k)
            gone == {c \in UNION {b.conns : b \in ToSet(left)} : c.from = id}
        IN  /\ Len(blocks) > 1
            /\ blocks' = [n \in DOMAIN left |-> [left[n] EXCEPT !.conns = @ \ gone]]
            /\ active' = IF active = id THEN left[1].id ELSE active
            /\ next' = next
  BY DEF RemoveBlock
<1> DEFINE id == blocks[k].id
           left == RemoveAt(blocks, k)
           gone == {c \in UNION {b.conns : b \in ToSet(left)} : c.from = id}
<1>4. /\ left \in Seq(ToSet(blocks)) /\ Len(left) = Len(blocks) - 1
      /\ \A n \in 1..Len(blocks) : n # k => blocks[n] \in ToSet(left)
      /\ ToSet(left) \subseteq ToSet(blocks)
  BY <1>1, <1>2, Removed
<1>5. /\ Len(blocks) > 1 /\ next' = next
      /\ blocks' = [n \in DOMAIN left |-> [left[n] EXCEPT !.conns = @ \ gone]]
      /\ active' = IF active = id THEN left[1].id ELSE active
  BY <1>3
<1>6. \A n \in DOMAIN left : \A c \in left[n].conns : c.from = id => c \in gone
  BY DEF ToSet
<1> HIDE DEF left, gone, id
<1>7. blocks' \in Seq(ToSet(blocks')) /\ DOMAIN blocks' = DOMAIN left
  <2>1. blocks' = [n \in DOMAIN left |-> blocks'[n]]
    BY <1>5
  <2> QED
    BY <1>4, <2>1, Mapped
<1>8. ASSUME NEW n \in DOMAIN left
      PROVE  /\ left[n] \in ToSet(blocks) /\ Shaped(blocks'[n]) /\ blocks'[n].id = left[n].id
             /\ blocks'[n].conns = left[n].conns \ gone
  <2>1. left[n] \in ToSet(blocks)
    BY <1>4 DEF ToSet
  <2>2. Shaped(left[n])
    BY <1>1, <2>1
  <2>3. blocks'[n] = [left[n] EXCEPT !.conns = @ \ gone]
    BY <1>5
  <2> QED
    BY <2>1, <2>2, <2>3 DEF Shaped
<1>9. IdsOf(blocks') = IdsOf(left)
  BY <1>7, <1>8 DEF IdsOf
<1>10. \A i \in IdsOf(blocks) : i # id => i \in IdsOf(left)
  <2> SUFFICES ASSUME NEW m \in DOMAIN blocks, blocks[m].id # id PROVE blocks[m].id \in IdsOf(left)
    BY DEF IdsOf
  <2>1. m # k /\ blocks[m] \in ToSet(left)
    BY <1>2, <1>4 DEF id
  <2> QED
    BY <2>1 DEF ToSet, IdsOf
<1>11. ASSUME NEW n \in DOMAIN left PROVE SoundIn(IdsOf(left), blocks'[n])
  <2>1. /\ SoundIn(IdsOf(blocks), left[n]) /\ blocks'[n].id = left[n].id
        /\ blocks'[n].conns = left[n].conns \ gone
    BY <1>1, <1>8
  <2>2. \A c \in blocks'[n].conns : c \in left[n].conns /\ c.from # id
    BY <1>6, <2>1
  <2> QED
    BY <1>10, <2>1, <2>2 DEF SoundIn
<1>12. active' \in IdsOf(left)
  <2>1. CASE active = id
    <3>1. 1 \in DOMAIN left
      BY <1>2, <1>4, <1>5, LenProperties
    <3> QED
      BY <1>5, <2>1, <3>1 DEF IdsOf
  <2>2. CASE active # id
    BY <1>1, <1>5, <1>10, <2>2
  <2> QED
    BY <2>1, <2>2
<1>13. ASSUME NEW b \in ToSet(blocks')
       PROVE  Shaped(b) /\ b.id \in 0..(next' - 1) /\ SoundIn(IdsOf(blocks'), b)
  <2>1. PICK n \in DOMAIN left : b = blocks'[n]
    BY <1>7 DEF ToSet
  <2>2. left[n].id \in 0..(next - 1)
    BY <1>1, <1>8
  <2> QED
    BY <1>5, <1>8, <1>9, <1>11, <2>1, <2>2
<1> QED
  BY <1>1, <1>5, <1>7, <1>9, <1>12, <1>13 DEF EInv, PlanGood

(* The blocks in another order.                                             *)
LEMMA MoveKeeps ==
    ASSUME EInv, MoveBlock
    PROVE  EInv'
<1>1. /\ next \in Nat /\ blocks \in Seq(ToSet(blocks)) /\ active \in IdsOf(blocks)
      /\ \A b \in ToSet(blocks) : Shaped(b) /\ b.id \in 0..(next - 1) /\ SoundIn(IdsOf(blocks), b)
  BY DEF EInv, PlanGood
<1>2. Len(blocks) \in Nat /\ DOMAIN blocks = 1..Len(blocks)
  BY <1>1, LenProperties
<1>3. PICK from \in DOMAIN blocks, to \in 1..Len(blocks) :
        /\ blocks' = InsertAt(RemoveAt(blocks, from), to, blocks[from])
        /\ UNCHANGED <<active, next>>
  BY DEF MoveBlock
<1> DEFINE left == RemoveAt(blocks, from)
<1>4. /\ left \in Seq(ToSet(blocks)) /\ Len(left) = Len(blocks) - 1
      /\ \A n \in 1..Len(blocks) : n # from => blocks[n] \in ToSet(left)
      /\ ToSet(left) \subseteq ToSet(blocks)
  BY <1>1, <1>2, Removed
<1>5. blocks' = InsertAt(left, to, blocks[from])
  BY <1>3
<1> HIDE DEF left
<1>6. blocks[from] \in ToSet(blocks) /\ to \in 1..(Len(left) + 1)
  BY <1>2, <1>4 DEF ToSet
<1>7. blocks' \in Seq(ToSet(blocks)) /\ ToSet(blocks') = ToSet(left) \cup {blocks[from]}
  BY <1>4, <1>5, <1>6, Inserted
<1>8. ToSet(blocks') = ToSet(blocks)
  BY <1>2, <1>4, <1>6, <1>7 DEF ToSet
<1>9. IdsOf(blocks') = IdsOf(blocks)
  BY <1>8 DEF IdsOf, ToSet
<1> QED
  BY <1>1, <1>3, <1>7, <1>8, <1>9 DEF EInv, PlanGood

LEMMA RelabelKeeps ==
    ASSUME EInv, RelabelBlock
    PROVE  EInv'
<1>1. PICK id \in BlockIds, l \in {0, 1} :
        /\ blocks' = WithBlock([BlockOf(id) EXCEPT !.label = l])
        /\ UNCHANGED <<active, next>>
  BY DEF RelabelBlock
<1> DEFINE e == [BlockOf(id) EXCEPT !.label = l]
<1>2. Shaped(e) /\ e.id = id /\ SoundIn(BlockIds, e)
  <2> DEFINE b == BlockOf(id)
  <2>1. Shaped(b) /\ b.id = id /\ SoundIn(BlockIds, b)
    BY OneOfThem
  <2>2. e = [b EXCEPT !.label = l]
    OBVIOUS
  <2> HIDE DEF b, e
  <2>3. Shaped(e) /\ e.id = b.id /\ e.conns = b.conns
    BY <2>1, <2>2 DEF Shaped
  <2> QED
    BY <2>1, <2>3 DEF SoundIn
<1>3. blocks' = WithBlock(e)
  BY <1>1
<1>4. next \in Nat /\ active \in BlockIds
  BY DEF EInv, PlanGood, BlockIds
<1> HIDE DEF e
<1>5. PlanGood(WithBlock(e), active, next)
  BY <1>2, <1>4, Replaced
<1> QED
  BY <1>1, <1>3, <1>5 DEF EInv

LEMMA BlocksKeep ==
    ASSUME EInv, EditBlocks
    PROVE  EInv'
BY AddForItemKeeps, AddKeeps, RemoveKeeps, DuplicateKeeps, MoveKeeps, RelabelKeeps DEF EditBlocks

-----------------------------------------------------------------------------
(* The invariant.                                                           *)

LEMMA LoadedGood ==
    ASSUME NEW s \in Starts, NEW n \in Nat, n >= s.next
    PROVE  PlanGood(s.blocks, s.active, n)
<1>1. /\ s.next \in Nat /\ IdsOf(s.blocks) \subseteq 0..(s.next - 1)
      /\ s.blocks \in Seq(ToSet(s.blocks)) /\ s.active \in IdsOf(s.blocks)
      /\ \A k \in DOMAIN s.blocks : {"id", "conns"} \subseteq DOMAIN s.blocks[k]
      /\ Linked(s.blocks)
  BY StartsAssumption
<1>2. ASSUME NEW b \in ToSet(s.blocks)
      PROVE  Shaped(b) /\ b.id \in 0..(n - 1) /\ SoundIn(IdsOf(s.blocks), b)
  <2>1. PICK k \in DOMAIN s.blocks : b = s.blocks[k]
    BY DEF ToSet
  <2>2. Shaped(b) /\ SoundIn(IdsOf(s.blocks), b)
    BY <1>1, <2>1 DEF Shaped, SoundIn, Linked
  <2>3. b.id \in 0..(s.next - 1)
    BY <1>1, <2>1 DEF IdsOf
  <2> QED
    BY <1>1, <2>2, <2>3
<1> QED
  BY <1>1, <1>2 DEF PlanGood

(* The copy of a plan: its blocks read from each other as the originals do. *)
LEMMA CopyKeeps ==
    ASSUME EInv, DuplicatePlan
    PROVE  EInv'
<1>1. /\ next \in Nat /\ blocks \in Seq(ToSet(blocks)) /\ active \in IdsOf(blocks)
      /\ \A b \in ToSet(blocks) : Shaped(b) /\ b.id \in 0..(next - 1) /\ SoundIn(IdsOf(blocks), b)
  BY DEF EInv, PlanGood
<1>2. blocks' = ClonePlan(blocks, next) /\ active' = active + next /\ next' = next + next
  BY DEF DuplicatePlan, Draws
<1> DEFINE f(c) == [Connection(c.id + next, c.item, c.from, c.max) EXCEPT !.from = IF @ \in IdsOf(blocks) THEN @ + next ELSE @]
<1>3. blocks' \in Seq(ToSet(blocks')) /\ DOMAIN blocks' = DOMAIN blocks
  BY <1>1, <1>2, Mapped DEF ClonePlan
<1>4. ASSUME NEW k \in DOMAIN blocks
      PROVE  /\ blocks[k] \in ToSet(blocks)
             /\ Shaped(blocks'[k]) /\ blocks'[k].id = blocks[k].id + next
             /\ blocks'[k].conns = {f(c) : c \in blocks[k].conns}
  <2> DEFINE e == CloneBlock(blocks[k], next)
  <2>1. blocks[k] \in ToSet(blocks)
    BY DEF ToSet
  <2>2. /\ Shaped(e) /\ e.id = blocks[k].id + next
        /\ e.conns = {Connection(c.id + next, c.item, c.from, c.max) : c \in blocks[k].conns}
    BY <1>1, <2>1 DEF CloneBlock, Shaped
  <2>3. blocks'[k] = [e EXCEPT !.conns = {[c EXCEPT !.from = IF @ \in IdsOf(blocks) THEN @ + next ELSE @] : c \in @}]
    BY <1>2 DEF ClonePlan
  <2> HIDE DEF e
  <2>4. /\ Shaped(blocks'[k]) /\ blocks'[k].id = blocks[k].id + next
        /\ blocks'[k].conns = {[c EXCEPT !.from = IF @ \in IdsOf(blocks) THEN @ + next ELSE @] : c \in e.conns}
    BY <2>2, <2>3 DEF Shaped
  <2> QED
    BY <2>1, <2>2, <2>4
<1>5. \A i \in IdsOf(blocks) : i \in 0..(next - 1) /\ i + next \in IdsOf(blocks')
  BY <1>1, <1>3, <1>4 DEF IdsOf, ToSet
<1>6. \A c : c.from \in IdsOf(blocks) => f(c).item = c.item /\ f(c).from = c.from + next
  BY DEF Connection
<1> HIDE DEF f
<1>7. ASSUME NEW k \in DOMAIN blocks PROVE SoundIn(IdsOf(blocks'), blocks'[k])
  <2>1. SoundIn(IdsOf(blocks), blocks[k]) /\ blocks[k].id \in 0..(next - 1)
    BY <1>1, <1>4
  <2>2. \A c \in blocks[k].conns : c.from \in IdsOf(blocks) /\ c.from # blocks[k].id
    BY <2>1 DEF SoundIn
  <2>3. ASSUME NEW c \in blocks[k].conns
        PROVE  /\ f(c).from \in IdsOf(blocks') \ {blocks'[k].id}
               /\ \A d \in blocks[k].conns : f(d).item = f(c).item /\ f(d).from = f(c).from => f(d) = f(c)
    <3>1. c.from \in 0..(next - 1) /\ f(c).from = c.from + next /\ f(c).item = c.item
      BY <1>5, <1>6, <2>2
    <3>2. f(c).from \in IdsOf(blocks') /\ f(c).from # blocks'[k].id
      BY <1>1, <1>4, <1>5, <2>1, <2>2, <3>1
    <3>3. ASSUME NEW d \in blocks[k].conns, f(d).item = f(c).item, f(d).from = f(c).from PROVE f(d) = f(c)
      <4>1. d.from \in 0..(next - 1) /\ f(d).from = d.from + next /\ f(d).item = d.item
        BY <1>5, <1>6, <2>2
      <4>2. d.from = c.from /\ d.item = c.item
        BY <1>1, <3>1, <3>3, <4>1
      <4> QED
        BY <2>1, <4>2 DEF SoundIn
    <3> QED
      BY <3>2, <3>3
  <2> QED
    BY <1>4, <2>3 DEF SoundIn
<1>8. ASSUME NEW b \in ToSet(blocks') PROVE Shaped(b) /\ b.id \in 0..(next' - 1) /\ SoundIn(IdsOf(blocks'), b)
  <2>1. PICK k \in DOMAIN blocks : b = blocks'[k]
    BY <1>3 DEF ToSet
  <2>2. blocks[k].id \in 0..(next - 1)
    BY <1>1, <1>4
  <2>3. b.id \in 0..(next' - 1)
    BY <1>1, <1>2, <1>4, <2>1, <2>2
  <2> QED
    BY <1>4, <1>7, <2>1, <2>3
<1>9. active' \in IdsOf(blocks') /\ next' \in Nat
  BY <1>1, <1>2, <1>5
<1> QED
  BY <1>3, <1>8, <1>9 DEF EInv, PlanGood

LEMMA PlanKeeps ==
    ASSUME EInv, EditPlan
    PROVE  EInv'
<1>1. CASE SetHorizon
  BY <1>1 DEF SetHorizon, EInv
<1>2. CASE SetAppState
  <2>1. PICK s \in Starts : /\ blocks' = s.blocks /\ active' = s.active
                            /\ next' = IF s.next > next THEN s.next ELSE next
    BY <1>2 DEF SetAppState
  <2>2. next \in Nat /\ s.next \in Nat
    BY StartsAssumption DEF EInv, PlanGood
  <2>3. next' \in Nat /\ next' >= s.next
    BY <2>1, <2>2
  <2> QED
    BY <2>1, <2>3, LoadedGood DEF EInv
<1> QED
  BY <1>1, <1>2, CopyKeeps DEF EditPlan

LEMMA InitGood ==
    ASSUME Init
    PROVE  EInv
<1>1. PICK s \in Starts : blocks = s.blocks /\ active = s.active /\ next = s.next
  BY DEF Init
<1>2. next \in Nat
  BY <1>1, StartsAssumption
<1> QED
  BY <1>1, <1>2, LoadedGood DEF EInv

LEMMA NextKeeps ==
    ASSUME EInv, [Next]_vars
    PROVE  EInv'
<1>1. CASE SetActiveBlock
  BY <1>1 DEF SetActiveBlock, EInv, PlanGood, BlockIds
<1>2. CASE UNCHANGED vars
  BY <1>2 DEF vars, EInv
<1> QED
  BY <1>1, <1>2, ProductsKeep, ConnectionsKeep, BlocksKeep, PlanKeeps, SubPlansKeep,
     RowsKeep, SettingsKeep, HistoryKeeps DEF Next

LEMMA GoodIsSound ==
    ASSUME EInv
    PROVE  ConnectionsSound
<1> SUFFICES ASSUME NEW n \in DOMAIN blocks, NEW c \in blocks[n].conns
             PROVE  /\ c.from \in IdsOf(blocks) \ {blocks[n].id}
                    /\ \A d \in blocks[n].conns : d.item = c.item /\ d.from = c.from => d = c
  BY DEF ConnectionsSound, Linked
<1>1. blocks[n] \in ToSet(blocks)
  BY DEF ToSet
<1> QED
  BY <1>1 DEF EInv, PlanGood, SoundIn

(* The plan stays good, whatever is edited, undone, redone or loaded.       *)
THEOREM EditorInvariant == Spec => []EInv
<1>1. Init => EInv
  BY InitGood
<1>2. EInv /\ [Next]_vars => EInv'
  BY NextKeeps
<1> QED
  BY <1>1, <1>2, PTL DEF Spec

(* However edits, undo and redo on different blocks interleave, every       *)
(* connection reads from another block that exists, once for each item.     *)
THEOREM EditorConnectionsSound == Spec => []ConnectionsSound
<1>1. EInv => ConnectionsSound
  BY GoodIsSound
<1> QED
  BY <1>1, EditorInvariant, PTL

-----------------------------------------------------------------------------
(* The planner: the editor, the game data and the solver store.             *)

(* With the data loaded and no solve due, either nothing was ever solved,   *)
(* and then no tab can be switched to as solved, or everything was, after   *)
(* the last change, or the last solve threw and what is shown is its error  *)
(* or an old result.                                                        *)
NothingSolved == status.type = "idle" /\ solvedIds = {}
ShownInv ==
    Wired /\ gameData = "loaded" /\ ~timer => NothingSolved \/ Current \/ OldStands

(* The groups of edits a behaviour may use do not change under it, and only *)
(* what leaves the active block alone changes the horizon.                  *)
LEMMA MenuKept ==
    ASSUME Next
    PROVE  menu' = menu /\ (active' # active => horizon' = horizon)
<1>1. CASE EditProducts
  BY <1>1 DEF EditProducts, AddProduct, RemoveProduct, UpdateProductExtra, Edits
<1>2. CASE EditItems
  BY <1>2 DEF EditItems, ToggleNoImportItem, SetItemSourcing, Edits
<1>3. CASE EditConnections
  BY <1>3 DEF EditConnections, AddInputConnection, RemoveInputConnection, SetConnectionMaxRate, Edits
<1>4. CASE EditBlocks
  BY <1>4 DEF EditBlocks, AddBlockForItem, AddBlock, RemoveBlock, DuplicateBlock, MoveBlock, RelabelBlock
<1>5. CASE EditPlan
  BY <1>5 DEF EditPlan, SetHorizon, SetAppState, DuplicatePlan
<1>6. CASE EditSubPlans
  BY <1>6 DEF EditSubPlans, AddSubPlan, RemoveSubPlan, DuplicateSubPlanTo, SetSubPlanArea,
       RenameSubPlan, WrapNodeInSubPlan, Edits
<1>7. CASE EditRows
  <2>1. ASSUME MoveNode PROVE \E c : \E id : Edits(c, id)
    BY <2>1 DEF MoveNode
  <2>2. ASSUME \E c : \E id : Edits(c, id) PROVE menu' = menu /\ horizon' = horizon
    BY <2>2 DEF Edits
  <2>3. ASSUME AddNode \/ BuildRowAlsoIn \/ RemoveNode \/ MoveNodeUp \/ MoveNodeDown PROVE menu' = menu /\ horizon' = horizon
    BY <2>3 DEF AddNode, BuildRowAlsoIn, RemoveNode, MoveNodeUp, MoveNodeDown, Edits
  <2> QED
    BY <1>7, <2>1, <2>2, <2>3 DEF EditRows
<1>8. CASE EditSettings
  BY <1>8 DEF EditSettings, UpdateNodeMachine, WritesMachine, UpdateNodeFuel, UpdateNodeRecipe,
       ApplyRowSettingsToRecipe, Edits
<1>9. CASE SetActiveBlock \/ Undo \/ Redo
  BY <1>9 DEF SetActiveBlock, Undo, Redo
<1> QED
  BY <1>1, <1>2, <1>3, <1>4, <1>5, <1>6, <1>7, <1>8, <1>9 DEF Next

(* A change of the plan makes a solve due, unless only another block of the *)
(* same plan was made active; its result is stored and as right as what was *)
(* shown before.                                                            *)
LEMMA EditShows ==
    ASSUME ShownInv, Edit
    PROVE  ShownInv'
<1> SUFFICES ASSUME Wired', gameData' = "loaded", ~timer' PROVE Current' \/ OldStands'
  BY DEF ShownInv
<1>1. Wired /\ BlocksChanged /\ gameData' = gameData
  BY MenuKept DEF Edit, Wired, BlocksChanged, dataVars
<1>2. OnlySwitched /\ SelectBlock(active')
  BY <1>1 DEF BlocksChanged, Schedule
<1>3. stale' = (stale \/ blocks' # blocks \/ horizon' # horizon)
  BY <1>1 DEF BlocksChanged
<1>4. Current \/ OldStands
  BY <1>1, <1>2 DEF ShownInv, NothingSolved, OnlySwitched
<1>5. horizon' = horizon
  BY <1>2, MenuKept DEF Edit, OnlySwitched
<1>6. CASE Current
  BY <1>2, <1>3, <1>5, <1>6 DEF Current, OnlySwitched, SelectBlock, Shown, BlockIds
<1>7. CASE OldStands
  BY <1>2, <1>7 DEF OldStands, OnlySwitched, SelectBlock, Shown
<1> QED
  BY <1>4, <1>6, <1>7

(* A solve stores the results of the plan as it is, or throws.              *)
LEMMA SolveShows ==
    ASSUME ShownInv, Solve
    PROVE  ShownInv'
<1> SUFFICES ASSUME gameData' = "loaded" PROVE Current' \/ OldStands'
  BY DEF ShownInv
<1>1. (SetSolved \/ Throws) /\ blocks' = blocks /\ active' = active
  BY DEF Solve, vars, dataVars
<1>2. CASE SetSolved
  BY <1>1, <1>2 DEF SetSolved, Current, Shown, BlockIds
<1>3. CASE Throws
  BY <1>3 DEF Throws, OldStands
<1> QED
  BY <1>1, <1>2, <1>3

(* An answer that was overtaken changes nothing; every other change of the  *)
(* data makes a solve due.                                                  *)
LEMMA DataShows ==
    ASSUME ShownInv,
           \/ LoadStarts \/ ImportGameData \/ ClearGameData
           \/ \E request \in inFlight : LoadEnds(request)
    PROVE  ShownInv'
<1>1. CASE \E to : DataChanges(to)
  BY <1>1 DEF DataChanges, Schedule, ShownInv
<1>2. CASE UNCHANGED <<gameData, vars, solverVars>>
  BY <1>2 DEF vars, solverVars, ShownInv, Wired, NothingSolved, Current, OldStands, Shown, BlockIds
<1> QED
  BY <1>1, <1>2 DEF LoadStarts, LoadEnds, ImportGameData, ClearGameData

(* Whatever edits, switches, undo, loads of the data and solves interleave, *)
(* the store is empty or right whenever no solve is due, but for what a     *)
(* solve that threw leaves standing.                                        *)
THEOREM PlannerInvariant == PlannerSpec => []ShownInv
<1>1. PlannerInit => ShownInv
  BY DEF PlannerInit, ShownInv, NothingSolved, Status
<1>2. ShownInv /\ [PlannerNext]_allVars => ShownInv'
  <2> SUFFICES ASSUME ShownInv, [PlannerNext]_allVars PROVE ShownInv'
    OBVIOUS
  <2>1. CASE UNCHANGED allVars
    BY <2>1 DEF allVars, vars, dataVars, solverVars, ShownInv, Wired, NothingSolved, Current,
         OldStands, Shown, BlockIds
  <2> QED
    BY <2>1, EditShows, SolveShows, DataShows DEF PlannerNext
<1> QED
  BY <1>1, <1>2, PTL DEF PlannerSpec

(* With the data loaded and no solve due, what is on screen is the result   *)
(* of the plan as it is, for the block that is active, and every block has  *)
(* one, unless a solve threw and its error or an old result is shown.       *)
THEOREM PlannerResultsCurrent == PlannerSpec => []ResultsCurrent
<1>1. ShownInv => ResultsCurrent
  BY DEF ShownInv, ResultsCurrent, NothingSolved
<1> QED
  BY <1>1, PlannerInvariant, PTL

(* The data in the store is of the newest request, whatever answers come    *)
(* late, and the store waits only for an answer that is still to come.  A   *)
(* new request is numbered above all that are in flight.                    *)
DataInv == latestRequest \in Nat /\ inFlight \subseteq 0..latestRequest /\ NewestRequestWins

THEOREM PlannerNewestRequestWins == PlannerSpec => []NewestRequestWins
<1>1. PlannerInit => DataInv
  BY DEF PlannerInit, DataInv, NewestRequestWins
<1>2. DataInv /\ [PlannerNext]_allVars => DataInv'
  <2> SUFFICES ASSUME DataInv, [PlannerNext]_allVars PROVE DataInv'
    OBVIOUS
  <2>1. CASE UNCHANGED dataVars
    BY <2>1 DEF dataVars, DataInv, NewestRequestWins
  <2>2. ASSUME latestRequest' = latestRequest + 1
        PROVE  /\ latestRequest' \in Nat /\ latestRequest' \notin inFlight
               /\ inFlight \subseteq 0..latestRequest'
               /\ latestRequest' \in 0..latestRequest'
    BY <2>2 DEF DataInv
  <2>3. CASE LoadStarts
    BY <2>2, <2>3 DEF LoadStarts, Requested, DataChanges, DataInv, NewestRequestWins
  <2>4. CASE ImportGameData \/ ClearGameData
    BY <2>2, <2>4 DEF ImportGameData, ClearGameData, Requested, DataChanges, DataInv, NewestRequestWins
  <2>5. CASE \E request \in inFlight : LoadEnds(request)
    BY <2>5 DEF LoadEnds, DataChanges, DataInv, NewestRequestWins
  <2>6. CASE Edit \/ Solve
    BY <2>1, <2>6 DEF Edit, BlocksChanged, Solve
  <2>7. CASE UNCHANGED allVars
    BY <2>1, <2>7 DEF allVars
  <2> QED
    BY <2>3, <2>4, <2>5, <2>6, <2>7 DEF PlannerNext
<1>3. DataInv => NewestRequestWins
  BY DEF DataInv
<1> QED
  BY <1>1, <1>2, <1>3, PTL DEF PlannerSpec

(* The connections stay sound in the planner as a whole: a solve and a load *)
(* of the data leave the plan alone.                                        *)
THEOREM PlannerConnectionsSound == PlannerSpec => []ConnectionsSound
<1>1. PlannerInit => EInv
  BY InitGood DEF PlannerInit
<1>2. EInv /\ [PlannerNext]_allVars => EInv'
  <2> SUFFICES ASSUME EInv, [PlannerNext]_allVars PROVE EInv'
    OBVIOUS
  <2>1. CASE Edit
    BY <2>1, NextKeeps DEF Edit
  <2>2. CASE UNCHANGED <<blocks, active, next>>
    BY <2>2 DEF EInv
  <2>3. CASE Solve \/ UNCHANGED allVars
    BY <2>2, <2>3 DEF Solve, allVars, vars
  <2>4. CASE LoadStarts \/ ImportGameData \/ ClearGameData
    BY <2>2, <2>4 DEF LoadStarts, ImportGameData, ClearGameData, DataChanges
  <2>5. CASE \E request \in inFlight : LoadEnds(request)
    BY <2>2, <2>5 DEF LoadEnds, DataChanges, vars
  <2> QED
    BY <2>1, <2>3, <2>4, <2>5 DEF PlannerNext
<1> QED
  BY <1>1, <1>2, GoodIsSound, PTL DEF PlannerSpec
=============================================================================
