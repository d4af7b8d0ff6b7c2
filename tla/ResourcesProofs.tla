----------------------------- MODULE ResourcesProofs -----------------------------
(***************************************************************************)
(* Theorems of Resources and Endpoint, for programs of any length and any  *)
(* number of objects.                                                      *)
(*                                                                         *)
(* The invariant orders the slots: a resource uses only what lies under    *)
(* it, which is what an object made earlier holds, or a part of the same   *)
(* object that destroy() releases later.  Destructors run from the top, so *)
(* nothing they give back is still in use.                                 *)
(***************************************************************************)
EXTENDS Endpoint, FunctionTheorems, FiniteSetTheorems, TLAPS

\* The methods that forget nothing when they fail.
SafeToRetry == {"pd", "umem", "uar", "qp", "mkey", "reset_to_init", "rtr_to_rts"}

\* When an object is made: the ones given to the program come first.
Order(o) ==
    IF o \in Outer THEN 0
    ELSE CHOOSE i \in 1 .. Len(Program) : Constructs(Program[i]) /\ Program[i].obj = o

\* What a program must see to, beyond what C++ demands.  A failed conversion of a
\* protection domain loses the domain, a method called again after a failure may
\* lose what the first call acquired, and so does init_to_rtr called twice on one
\* queue pair; the address handle it makes must not outlive its domain.
Disciplined ==
    /\ ~ConvertFails
    /\ RetryOps \subseteq SafeToRetry
    /\ \A i \in CallsOf({"init_to_rtr"}) :
        /\ Order(Program[i].on.pd) < Order(Program[i].obj)
        /\ \A j \in CallsOf({"init_to_rtr"}) : Program[i].obj = Program[j].obj => i = j

--------------------------------------------------------------------------------
(***************************************************************************)
(* Slots in order.                                                         *)
(***************************************************************************)

\* The slots of the object a call makes, and the one others use.
SlotsOf(c) ==
    LET own(S) == {<<c.obj, "self", p>> : p \in S}
        memory(m) == {<<c.obj, m, p>> : p \in {"_umem", "_umem_buf"}}
    IN  CASE c.op = "device" -> own({"_device_list", "_context"})
          [] c.op = "pd" -> own({"_pd"})
          [] c.op = "umem" -> memory("self")
          [] c.op = "uar" -> own({"_uar"})
          [] c.op = "cq" -> own({"_cq"}) \cup {<<c.obj, "_uar", "_uar">>}
                            \cup memory("_umem") \cup memory("_umem_db")
          [] c.op = "qp" -> own({"_qp", "_ah"})
          [] c.op = "mkey" -> own({"_mkey"})
          [] c.op = "mr" -> own({"_cross_mr"}) \cup memory("_umem")

Handle(c) ==
    <<c.obj, "self",
      CASE c.op = "device" -> "_context"
        [] c.op = "pd" -> "_pd"
        [] c.op = "umem" -> "_umem"
        [] c.op = "uar" -> "_uar"
        [] c.op = "cq" -> "_cq"
        [] c.op = "qp" -> "_qp"
        [] c.op = "mkey" -> "_mkey"
        [] c.op = "mr" -> "_cross_mr">>

\* What slot s holds may be used by what slot t holds.
Under(s, t) ==
    IF s[1] # t[1] THEN Order(s[1]) < Order(t[1])
    ELSE \/ s[3] = "_umem_buf" /\ t[3] = "_umem" /\ s[2] = t[2]
         \/ s[3] \in {"_umem", "_uar"} /\ t[3] \in {"_cq", "_cross_mr"}

HeapType ==
    [held : [Slots -> Nat], needs : Seq(SUBSET Nat), live : SUBSET Nat, misused : SUBSET Nat]

\* Every live resource is held in one slot, and uses what is held under it.
HeapOK(h) ==
    /\ h \in HeapType
    /\ h.misused = {}
    /\ h.live \subseteq 1 .. Len(h.needs)
    /\ \A k \in 1 .. Len(h.needs) : h.needs[k] \subseteq 1 .. Len(h.needs)
    /\ \A s \in Slots : h.held[s] # 0 => h.held[s] \in h.live
    /\ \A s, t \in Slots : h.held[s] # 0 /\ h.held[s] = h.held[t] => s = t
    /\ \A l \in h.live : \E s \in Slots : h.held[s] = l
    /\ \A t \in Slots : h.held[t] # 0 =>
        \A k \in h.needs[h.held[t]] : \E s \in Slots : h.held[s] = k /\ Under(s, t)

--------------------------------------------------------------------------------
(***************************************************************************)
(* The inductive invariant.                                                *)
(***************************************************************************)

Calls == {Program[i] : i \in 1 .. Len(Program)}

\* The locals were made in the order of the program.
FrameInv ==
    /\ frame \in Seq(Calls)
    /\ \A i \in 1 .. Len(frame) : Constructs(frame[i])
    /\ \A i, j \in 1 .. Len(frame) : i < j => Order(frame[i].obj) < Order(frame[j].obj)

\* Only they and the given devices hold anything.
HoldInv ==
    /\ \A s \in OuterSlots : heap.held[s] # 0
    /\ \A s \in Slots : heap.held[s] # 0 =>
        s \in OuterSlots \/ \E i \in 1 .. Len(frame) : s \in SlotsOf(frame[i])

\* While no call has failed for good: the calls before have made their objects; the
\* one the program is at may have been tried, and has left its object empty.
RunningInv ==
    /\ \A i \in 1 .. Len(frame) :
        \/ Order(frame[i].obj) < at
        \/ Order(frame[i].obj) = at /\ tries > 0
    /\ \A j \in 1 .. at - 1 :
        Constructs(Program[j]) => heap.held[Handle(Program[j])] # 0
    /\ at <= Len(Program) /\ Constructs(Program[at]) =>
        /\ \A s \in SlotsOf(Program[at]) : heap.held[s] = 0
        /\ tries > 0 => frame # <<>> /\ Last(frame) = Program[at]
    /\ \A q \in Qps : heap.held[<<q, "self", "_ah">>] # 0 =>
        \E j \in 1 .. at - 1 : Program[j].op = "init_to_rtr" /\ Program[j].obj = q

ResInv ==
    /\ HeapOK(heap)
    /\ FrameInv
    /\ HoldInv
    /\ at \in 1 .. Len(Program) + 1
    /\ tries \in 0 .. Retries
    /\ phase = "running" => RunningInv

\* A queue pair whose last transition made it ready to send is, whatever was
\* posted on it since.
ReadyAt(q, i) ==
    \E j \in 1 .. i - 1 :
        /\ Program[j].op = "rtr_to_rts" /\ Program[j].obj = q
        /\ \A k \in j + 1 .. i - 1 : Program[k].obj = q => Program[k].op = "post"

StateInv ==
    /\ qpState \in [Qps -> QpStates]
    /\ \A q \in Qps : ReadyAt(q, at) => qpState[q] = "RTS"

--------------------------------------------------------------------------------
(***************************************************************************)
(* One resource.                                                           *)
(***************************************************************************)

\* Nothing above a slot is held.
Clear(h, s) == \A t \in Slots : h.held[t] # 0 => ~Under(s, t)

\* A slot that is nullptr may be set to nullptr.
LEMMA HoldNothing ==
    ASSUME NEW h, HeapOK(h), NEW s \in Slots, h.held[s] = 0
    PROVE  Hold(h, s, 0) = h
<1>1. h \in HeapType
  BY DEF HeapOK
<1>2. [h.held EXCEPT ![s] = 0] = h.held
  BY <1>1 DEF HeapType
<1> QED BY <1>1, <1>2 DEF Hold, HeapType

\* A resource made from what is held under its slot.
LEMMA GrabKeeps ==
    ASSUME NEW h, HeapOK(h), NEW s \in Slots, h.held[s] = 0,
           NEW uses \in SUBSET Slots, \A u \in uses : h.held[u] # 0 /\ Under(u, s)
    PROVE  /\ HeapOK(Grab(h, s, uses))
           /\ Grab(h, s, uses).held[s] # 0
           /\ \A t \in Slots : t # s => Grab(h, s, uses).held[t] = h.held[t]
<1> DEFINE g == Grab(h, s, uses)
           k == Len(h.needs) + 1
           used == {h.held[u] : u \in uses}
<1>1. h \in HeapType /\ h.misused = {} /\ h.held \in [Slots -> Nat]
      /\ h.needs \in Seq(SUBSET Nat) /\ h.live \in SUBSET Nat
  BY DEF HeapOK, HeapType
<1>2. k \in Nat \ {0} /\ Len(h.needs) \in Nat
  BY <1>1
<1>3. used \subseteq h.live /\ used \in SUBSET Nat /\ used \subseteq 1 .. Len(h.needs)
  BY <1>1 DEF HeapOK
<1>4. /\ g.held = [h.held EXCEPT ![s] = k]
      /\ g.needs = Append(h.needs, used)
      /\ g.live = h.live \cup {k}
      /\ g.misused = {}
      /\ g = [held |-> g.held, needs |-> g.needs, live |-> g.live, misused |-> g.misused]
  BY <1>1, <1>3 DEF Grab
<1> HIDE DEF g, used
<1>5. /\ g.needs \in Seq(SUBSET Nat) /\ Len(g.needs) = k
      /\ g.needs[k] = used
      /\ \A i \in 1 .. Len(h.needs) : g.needs[i] = h.needs[i]
  BY <1>1, <1>3, <1>4
<1>6. /\ g.held \in [Slots -> Nat] /\ g.held[s] = k
      /\ \A t \in Slots : t # s => g.held[t] = h.held[t]
  BY <1>1, <1>2, <1>4
<1>7. g \in HeapType
  BY <1>1, <1>2, <1>4, <1>5, <1>6 DEF HeapType
<1>8. \A t \in Slots : h.held[t] # 0 => h.held[t] \in 1 .. Len(h.needs)
  BY <1>1 DEF HeapOK
<1>9. g.live \subseteq 1 .. Len(g.needs)
      /\ \A i \in 1 .. Len(g.needs) : g.needs[i] \subseteq 1 .. Len(g.needs)
  <2>1. h.live \subseteq 1 .. Len(h.needs)
        /\ \A i \in 1 .. Len(h.needs) : h.needs[i] \subseteq 1 .. Len(h.needs)
    BY DEF HeapOK
  <2>2. 1 .. Len(h.needs) \subseteq 1 .. k /\ k \in 1 .. k /\ 1 .. k = (1 .. Len(h.needs)) \cup {k}
    BY <1>2
  <2> HIDE DEF k
  <2> QED BY <1>3, <1>4, <1>5, <2>1, <2>2
<1>10. \A t \in Slots : g.held[t] # 0 => g.held[t] \in g.live
  BY <1>4, <1>6 DEF HeapOK
<1>11. \A t, u \in Slots : g.held[t] # 0 /\ g.held[t] = g.held[u] => t = u
  BY <1>2, <1>6, <1>8 DEF HeapOK
<1>12. \A l \in g.live : \E t \in Slots : g.held[t] = l
  <2>1. \A l \in h.live : l # 0 /\ \E t \in Slots : h.held[t] = l
    BY DEF HeapOK
  <2> QED BY <1>4, <1>6, <2>1
<1>13. ASSUME NEW t \in Slots, g.held[t] # 0, NEW i \in g.needs[g.held[t]]
       PROVE  \E u \in Slots : g.held[u] = i /\ Under(u, t)
  <2>1. CASE t = s
    <3>1. PICK u \in uses : i = h.held[u]
      BY <1>5, <1>6, <1>13, <2>1 DEF used
    <3> QED BY <1>6, <2>1, <3>1
  <2>2. CASE t # s
    <3>1. h.held[t] # 0 /\ i \in h.needs[h.held[t]]
      BY <1>5, <1>6, <1>8, <1>13, <2>2
    <3>2. PICK u \in Slots : h.held[u] = i /\ Under(u, t)
      BY <3>1 DEF HeapOK
    <3>3. i # 0
      BY <1>8, <3>1 DEF HeapOK
    <3> QED BY <1>6, <3>2, <3>3
  <2> QED BY <2>1, <2>2
<1> QED BY <1>2, <1>4, <1>6, <1>7, <1>9, <1>10, <1>11, <1>12, <1>13 DEF HeapOK, g

\* What nothing above uses is given back for good.
LEMMA DropKeeps ==
    ASSUME NEW h, HeapOK(h), NEW s \in Slots, Clear(h, s)
    PROVE  /\ HeapOK(Drop(h, s))
           /\ Drop(h, s).held[s] = 0
           /\ \A t \in Slots : t # s => Drop(h, s).held[t] = h.held[t]
<1> DEFINE g == Drop(h, s)
           k == h.held[s]
<1>1. h \in HeapType /\ h.misused = {} /\ h.held \in [Slots -> Nat]
      /\ h.needs \in Seq(SUBSET Nat) /\ h.live \in SUBSET Nat
  BY DEF HeapOK, HeapType
<1>2. CASE k = 0
  BY <1>2 DEF Drop
<1>3. CASE k # 0
  <2>1. ~InUse(h, k)
    <3> SUFFICES ASSUME NEW l \in h.live, k \in h.needs[l] PROVE FALSE
      BY DEF InUse
    <3>1. PICK t \in Slots : h.held[t] = l
      BY DEF HeapOK
    <3>2. l # 0
      BY <1>1 DEF HeapOK
    <3>3. PICK u \in Slots : h.held[u] = k /\ Under(u, t)
      BY <3>1, <3>2 DEF HeapOK
    <3>4. u = s
      BY <1>3, <3>3 DEF HeapOK
    <3> QED BY <3>1, <3>2, <3>3, <3>4 DEF Clear
  <2>2. g = [[h EXCEPT !.held[s] = 0] EXCEPT !.live = @ \ {k}, !.misused = @]
    BY <1>3, <2>1 DEF Drop, Hold
  <2>3. /\ g.held = [h.held EXCEPT ![s] = 0]
        /\ g.needs = h.needs
        /\ g.live = h.live \ {k}
        /\ g.misused = {}
        /\ g = [held |-> g.held, needs |-> g.needs, live |-> g.live, misused |-> g.misused]
    BY <1>1, <2>2 DEF HeapType
  <2> HIDE DEF g, k
  <2>4. /\ g.held \in [Slots -> Nat] /\ g.held[s] = 0
        /\ \A t \in Slots : t # s => g.held[t] = h.held[t]
    BY <1>1, <2>3
  <2>5. g \in HeapType
    BY <1>1, <2>3, <2>4 DEF HeapType
  <2>6. \A t \in Slots : t # s /\ h.held[t] # 0 => h.held[t] # k
    BY <1>3 DEF HeapOK, k
  <2>7. ASSUME NEW t \in Slots, g.held[t] # 0, NEW i \in g.needs[g.held[t]]
        PROVE  \E u \in Slots : g.held[u] = i /\ Under(u, t)
    <3>1. t # s /\ h.held[t] # 0 /\ i \in h.needs[h.held[t]]
      BY <2>3, <2>4, <2>7
    <3>2. PICK u \in Slots : h.held[u] = i /\ Under(u, t)
      BY <3>1 DEF HeapOK
    <3>3. u # s
      BY <3>1, <3>2 DEF Clear
    <3> QED BY <2>4, <3>2, <3>3
  <2>8. \A l \in g.live : \E t \in Slots : g.held[t] = l
    BY <2>3, <2>4 DEF HeapOK, k
  <2>9. /\ \A t \in Slots : g.held[t] # 0 => g.held[t] \in g.live
        /\ \A t, u \in Slots : g.held[t] # 0 /\ g.held[t] = g.held[u] => t = u
    BY <2>3, <2>4, <2>6 DEF HeapOK
  <2>10. HeapOK(g)
    BY <2>3, <2>5, <2>7, <2>8, <2>9 DEF HeapOK
  <2> QED BY <2>4, <2>10 DEF g
<1> QED BY <1>2, <1>3

--------------------------------------------------------------------------------
(***************************************************************************)
(* One object.                                                             *)
(***************************************************************************)

Classes == {"device", "pd", "umem", "uar", "cq", "qp", "mkey", "mr"}

\* Nothing outside a set of slots is above one of them.
Top(h, S) == \A s \in S, t \in Slots \ S : h.held[t] # 0 => ~Under(s, t)

\* A method has changed these slots only, or cleared them.
Within(h, g, S) == HeapOK(g) /\ \A t \in Slots \ S : g.held[t] = h.held[t]
Emptied(h, g, S) == Within(h, g, S) /\ \A t \in S : g.held[t] = 0

\* The pointers each class of object holds.
LEMMA ClassSlots ==
    ASSUME NEW c
    PROVE  /\ c.op = "device" => SlotsOf(c) = {<<c.obj, "self", "_device_list">>, Context(c.obj)}
           /\ c.op = "pd" => SlotsOf(c) = {Pd(c.obj)}
           /\ c.op = "umem" =>
                SlotsOf(c) = {<<c.obj, "self", "_umem">>, <<c.obj, "self", "_umem_buf">>}
           /\ c.op = "uar" => SlotsOf(c) = {<<c.obj, "self", "_uar">>}
           /\ c.op = "cq" =>
                SlotsOf(c) = {<<c.obj, "self", "_cq">>, <<c.obj, "_uar", "_uar">>,
                              <<c.obj, "_umem", "_umem">>, <<c.obj, "_umem", "_umem_buf">>,
                              <<c.obj, "_umem_db", "_umem">>, <<c.obj, "_umem_db", "_umem_buf">>}
           /\ c.op = "qp" => SlotsOf(c) = {<<c.obj, "self", "_qp">>, <<c.obj, "self", "_ah">>}
           /\ c.op = "mkey" => SlotsOf(c) = {<<c.obj, "self", "_mkey">>}
           /\ c.op = "mr" =>
                SlotsOf(c) = {<<c.obj, "self", "_cross_mr">>,
                              <<c.obj, "_umem", "_umem">>, <<c.obj, "_umem", "_umem_buf">>}
BY DEF SlotsOf, Context, Pd

\* Which parts of one object use which.
LEMMA UnderWithin ==
    ASSUME NEW o, NEW m, NEW p, NEW n, NEW q
    PROVE  Under(<<o, m, p>>, <<o, n, q>>) =
             \/ p = "_umem_buf" /\ q = "_umem" /\ m = n
             \/ p \in {"_umem", "_uar"} /\ q \in {"_cq", "_cross_mr"}
BY DEF Under

\* A member's pointer is one of the slots.
LEMMA IsSlot ==
    ASSUME NEW o \in Objects, NEW m \in Members, NEW p \in Pointers
    PROVE  <<o, m, p>> \in Slots
BY DEF Slots

\* So are all the pointers of an object.
LEMMA SlotsAreSlots ==
    ASSUME NEW c, c.op \in Classes, c.obj \in Objects
    PROVE  SlotsOf(c) \subseteq Slots
<1>1. \A m \in Members, p \in Pointers : <<c.obj, m, p>> \in Slots
  BY IsSlot
<1>2. /\ \A p \in Pointers : <<c.obj, "self", p>> \in Slots
      /\ <<c.obj, "_uar", "_uar">> \in Slots
      /\ \A m \in {"_umem", "_umem_db"}, p \in {"_umem", "_umem_buf"} : <<c.obj, m, p>> \in Slots
  BY <1>1 DEF Members, Pointers
<1>3. CASE c.op \in {"device", "pd", "uar", "mkey"}
  BY <1>2, <1>3, ClassSlots DEF Context, Pd, Pointers
<1>4. CASE c.op \in {"umem", "qp"}
  BY <1>2, <1>4, ClassSlots DEF Pointers
<1>5. CASE c.op = "cq"
  BY <1>2, <1>5, ClassSlots DEF Pointers
<1>6. CASE c.op = "mr"
  BY <1>2, <1>6, ClassSlots DEF Pointers
<1> QED BY <1>3, <1>4, <1>5, <1>6 DEF Classes

\* The buffer is freed after its registration is gone.
LEMMA UmemDestroyEmpties ==
    ASSUME NEW h, HeapOK(h), NEW o \in Objects, NEW m \in Members,
           Clear(h, <<o, m, "_umem">>),
           \A t \in Slots : t # <<o, m, "_umem">> /\ h.held[t] # 0 =>
               ~Under(<<o, m, "_umem_buf">>, t)
    PROVE  Emptied(h, UmemDestroy(h, o, m), {<<o, m, "_umem">>, <<o, m, "_umem_buf">>})
<1> DEFINE u == <<o, m, "_umem">>
           b == <<o, m, "_umem_buf">>
           g == Drop(h, u)
<1>1. u \in Slots /\ b \in Slots /\ u # b
  BY IsSlot DEF Pointers
<1>2. /\ HeapOK(g) /\ g.held[u] = 0
      /\ \A t \in Slots : t # u => g.held[t] = h.held[t]
  BY <1>1, DropKeeps
<1> HIDE DEF g
<1>3. Clear(g, b)
  BY <1>2 DEF Clear
<1>4. /\ HeapOK(Drop(g, b)) /\ Drop(g, b).held[b] = 0
      /\ \A t \in Slots : t # b => Drop(g, b).held[t] = g.held[t]
  BY <1>1, <1>2, <1>3, DropKeeps
<1>5. UmemDestroy(h, o, m) = Drop(g, b)
  BY DEF UmemDestroy, g
<1> QED BY <1>1, <1>2, <1>4, <1>5 DEF Emptied, Within

\* One slot of an object whose other slots may be above it.
LEMMA DropWithin ==
    ASSUME NEW h, HeapOK(h), NEW S \in SUBSET Slots, Top(h, S), NEW s \in S,
           \A t \in S : h.held[t] # 0 => ~Under(s, t)
    PROVE  /\ Within(h, Drop(h, s), S) /\ Top(Drop(h, s), S)
           /\ Drop(h, s).held[s] = 0
           /\ \A t \in S : t # s => Drop(h, s).held[t] = h.held[t]
<1>1. Clear(h, s)
  BY DEF Clear, Top
<1> QED BY <1>1, DropKeeps DEF Within, Top

\* user_memory::destroy releases its registration and its buffer, and touches nothing else.
LEMMA UmemWithin ==
    ASSUME NEW h, HeapOK(h), NEW S \in SUBSET Slots, Top(h, S),
           NEW o \in Objects, NEW m \in Members,
           <<o, m, "_umem">> \in S, <<o, m, "_umem_buf">> \in S,
           \A t \in S : h.held[t] # 0 => ~Under(<<o, m, "_umem">>, t),
           \A t \in S : t # <<o, m, "_umem">> => ~Under(<<o, m, "_umem_buf">>, t)
    PROVE  LET g == UmemDestroy(h, o, m)
           IN  /\ Within(h, g, S) /\ Top(g, S)
               /\ g.held[<<o, m, "_umem">>] = 0 /\ g.held[<<o, m, "_umem_buf">>] = 0
               /\ \A t \in S \ {<<o, m, "_umem">>, <<o, m, "_umem_buf">>} :
                    g.held[t] = h.held[t]
<1> DEFINE u == <<o, m, "_umem">>
           b == <<o, m, "_umem_buf">>
           g == UmemDestroy(h, o, m)
<1>1. Clear(h, u) /\ \A t \in Slots : t # u /\ h.held[t] # 0 => ~Under(b, t)
  BY DEF Clear, Top
<1>2. Emptied(h, g, {u, b})
  BY <1>1, UmemDestroyEmpties
<1> HIDE DEF g, u, b
<1>3. u \in S /\ b \in S
  BY DEF u, b
<1> QED BY <1>2, <1>3 DEF Emptied, Within, Top, g, u, b

\* device::destroy leaves none of the device's pointers behind.
LEMMA DeviceDestroyEmpties ==
    ASSUME NEW h, HeapOK(h), NEW c, c.op = "device", c.obj \in Objects, Top(h, SlotsOf(c))
    PROVE  Emptied(h, DeviceDestroy(h, c.obj), SlotsOf(c))
<1> DEFINE o == c.obj
           x == Context(o)
           l == <<o, "self", "_device_list">>
           S == SlotsOf(c)
           g == Drop(h, x)
<1>1. S = {l, x} /\ S \subseteq Slots
  BY ClassSlots, SlotsAreSlots DEF Classes
<1>2. ~Under(x, x) /\ ~Under(x, l) /\ ~Under(l, l) /\ ~Under(l, x) /\ x # l
  BY UnderWithin DEF Context
<1> HIDE DEF S, x, l
<1>3. /\ Within(h, g, S) /\ Top(g, S) /\ g.held[x] = 0
  BY <1>1, <1>2, DropWithin DEF S
<1> HIDE DEF g
<1>4. /\ Within(g, Drop(g, l), S) /\ Drop(g, l).held[l] = 0 /\ Drop(g, l).held[x] = g.held[x]
  BY <1>1, <1>2, <1>3, DropWithin DEF Within
<1>5. DeviceDestroy(h, o) = Drop(g, l)
  BY DEF DeviceDestroy, g, x, l
<1> QED BY <1>1, <1>3, <1>4, <1>5 DEF Emptied, Within, S

\* The queue goes first, then its memory, then its register.
LEMMA CqDestroyEmpties ==
    ASSUME NEW h, HeapOK(h), NEW c, c.op = "cq", c.obj \in Objects, Top(h, SlotsOf(c))
    PROVE  Emptied(h, CqDestroy(h, c.obj), SlotsOf(c))
<1> DEFINE o == c.obj
           S == SlotsOf(c)
           q == <<o, "self", "_cq">>
           a == <<o, "_uar", "_uar">>
           u == <<o, "_umem", "_umem">>
           b == <<o, "_umem", "_umem_buf">>
           v == <<o, "_umem_db", "_umem">>
           d == <<o, "_umem_db", "_umem_buf">>
           g1 == Drop(h, q)
           g2 == UmemDestroy(g1, o, "_umem_db")
           g3 == UmemDestroy(g2, o, "_umem")
           g4 == Drop(g3, a)
<1>1. S = {q, a, u, b, v, d} /\ S \subseteq Slots
  BY ClassSlots, SlotsAreSlots DEF Classes
<1>2. /\ \A t \in S : ~Under(q, t)
      /\ \A t \in S : Under(v, t) => t = q
      /\ \A t \in S : Under(d, t) => t = v
      /\ \A t \in S : Under(u, t) => t = q
      /\ \A t \in S : Under(b, t) => t = u
      /\ \A t \in S : Under(a, t) => t = q
  BY <1>1 DEF Under
<1>3. q \notin {a, u, b, v, d} /\ a \notin {u, b, v, d} /\ u \notin {b, v, d} /\ b \notin {v, d} /\ v # d
  OBVIOUS
<1>0. S \in SUBSET Slots /\ q \in S /\ a \in S /\ u \in S /\ b \in S /\ v \in S /\ d \in S
  BY <1>1
<1> HIDE DEF S
<1>4. /\ Within(h, g1, S) /\ Top(g1, S) /\ g1.held[q] = 0
  BY <1>2, <1>0, DropWithin DEF S
<1> HIDE DEF g1
<1>5. /\ Within(g1, g2, S) /\ Top(g2, S) /\ g2.held[v] = 0 /\ g2.held[d] = 0
      /\ g2.held[q] = 0
  <2>1. "_umem_db" \in Members /\ HeapOK(g1)
    BY <1>4 DEF Members, Within
  <2>2. /\ \A t \in S : g1.held[t] # 0 => ~Under(v, t)
        /\ \A t \in S : t # v => ~Under(d, t)
    BY <1>2, <1>4
  <2> QED BY <1>0, <1>3, <1>4, <2>1, <2>2, UmemWithin
<1> HIDE DEF g2
<1>6. /\ Within(g2, g3, S) /\ Top(g3, S) /\ g3.held[u] = 0 /\ g3.held[b] = 0
      /\ g3.held[q] = 0 /\ g3.held[v] = 0 /\ g3.held[d] = 0
  <2>1. "_umem" \in Members /\ HeapOK(g2)
    BY <1>5 DEF Members, Within
  <2>2. /\ \A t \in S : g2.held[t] # 0 => ~Under(u, t)
        /\ \A t \in S : t # u => ~Under(b, t)
    BY <1>2, <1>5
  <2> QED BY <1>0, <1>3, <1>5, <2>1, <2>2, UmemWithin
<1> HIDE DEF g3
<1>7. /\ Within(g3, g4, S) /\ g4.held[a] = 0
      /\ \A t \in S : t # a => g4.held[t] = g3.held[t]
  BY <1>2, <1>0, <1>6, DropWithin DEF Within
<1> HIDE DEF g4
<1>8. CqDestroy(h, o) = g4
  BY DEF CqDestroy, UarDestroy, g1, g2, g3, g4
<1> HIDE DEF q, a, u, b, v, d
<1>9. \A t \in S : g4.held[t] = 0
  BY <1>1, <1>6, <1>7
<1>10. Within(h, g4, S)
  BY <1>4, <1>5, <1>6, <1>7 DEF Within
<1> QED BY <1>8, <1>9, <1>10 DEF Emptied, S

\* The key goes first, then the memory of the region.
LEMMA MrDestroyEmpties ==
    ASSUME NEW h, HeapOK(h), NEW c, c.op = "mr", c.obj \in Objects, Top(h, SlotsOf(c))
    PROVE  Emptied(h, MrDestroy(h, c.obj), SlotsOf(c))
<1> DEFINE o == c.obj
           S == SlotsOf(c)
           q == <<o, "self", "_cross_mr">>
           u == <<o, "_umem", "_umem">>
           b == <<o, "_umem", "_umem_buf">>
           g1 == Drop(h, q)
           g2 == UmemDestroy(g1, o, "_umem")
<1>1. S = {q, u, b} /\ S \subseteq Slots
  BY ClassSlots, SlotsAreSlots DEF Classes
<1>2. /\ \A t \in S : ~Under(q, t)
      /\ \A t \in S : Under(u, t) => t = q
      /\ \A t \in S : Under(b, t) => t = u
  BY <1>1 DEF Under
<1>3. q \notin {u, b} /\ u # b
  OBVIOUS
<1>4. /\ Within(h, g1, S) /\ Top(g1, S) /\ g1.held[q] = 0
  BY <1>1, <1>2, DropWithin
<1> HIDE DEF g1
<1>5. /\ Within(g1, g2, S) /\ g2.held[u] = 0 /\ g2.held[b] = 0 /\ g2.held[q] = 0
  <2>1. "_umem" \in Members /\ HeapOK(g1)
    BY <1>4 DEF Members, Within
  <2>2. /\ \A t \in S : g1.held[t] # 0 => ~Under(u, t)
        /\ \A t \in S : t # u => ~Under(b, t)
    BY <1>2, <1>4
  <2> QED BY <1>1, <1>3, <1>4, <2>1, <2>2, UmemWithin
<1> HIDE DEF g2
<1>6. MrDestroy(h, o) = g2
  BY DEF MrDestroy, DestroyUserMemory, g1, g2
<1> HIDE DEF S, q, u, b
<1> QED BY <1>1, <1>4, <1>5, <1>6 DEF Emptied, Within, S

\* queue_pair::destroy leaves none of the queue pair's pointers behind.
LEMMA QpDestroyEmpties ==
    ASSUME NEW h, HeapOK(h), NEW c, c.op = "qp", c.obj \in Objects, Top(h, SlotsOf(c))
    PROVE  Emptied(h, QpDestroy(h, c.obj), SlotsOf(c))
<1> DEFINE o == c.obj
           S == SlotsOf(c)
           q == <<o, "self", "_qp">>
           a == <<o, "self", "_ah">>
           g == Drop(h, q)
<1>1. S = {q, a} /\ S \subseteq Slots
  BY ClassSlots, SlotsAreSlots DEF Classes
<1>2. (\A s, t \in S : ~Under(s, t)) /\ q # a
  BY <1>1 DEF Under
<1> HIDE DEF S, q, a
<1>3. /\ Within(h, g, S) /\ Top(g, S) /\ g.held[q] = 0
  BY <1>1, <1>2, DropWithin DEF S
<1> HIDE DEF g
<1>4. /\ Within(g, Drop(g, a), S) /\ Drop(g, a).held[a] = 0 /\ Drop(g, a).held[q] = g.held[q]
  BY <1>1, <1>2, <1>3, DropWithin DEF Within
<1>5. QpDestroy(h, o) = Drop(g, a)
  BY DEF QpDestroy, g, q, a
<1> QED BY <1>1, <1>3, <1>4, <1>5 DEF Emptied, Within, S

\* Every destructor, whatever its method has left in the object.
LEMMA DestructorEmpties ==
    ASSUME NEW h, HeapOK(h), NEW c, c.op \in Classes, c.obj \in Objects, Top(h, SlotsOf(c))
    PROVE  Emptied(h, Destructor(c, h), SlotsOf(c))
<1>1. CASE c.op \in {"pd", "uar", "mkey"}
  <2> DEFINE p == CASE c.op = "pd" -> "_pd" [] c.op = "uar" -> "_uar" [] c.op = "mkey" -> "_mkey"
             s == <<c.obj, "self", p>>
  <2>1. SlotsOf(c) = {s} /\ s \in Slots
    BY <1>1, ClassSlots, SlotsAreSlots DEF Pd
  <2>2. ~Under(s, s)
    BY <1>1, UnderWithin
  <2>3. Destructor(c, h) = Drop(h, s)
    BY <1>1 DEF Destructor, PdDestroy, UarDestroy, MkeyDestroy, Pd
  <2> HIDE DEF s
  <2>4. Within(h, Drop(h, s), SlotsOf(c)) /\ Drop(h, s).held[s] = 0
    BY <2>1, <2>2, DropWithin
  <2> QED BY <2>1, <2>3, <2>4 DEF Emptied
<1>2. CASE c.op = "umem"
  <2>1. /\ SlotsOf(c) = {<<c.obj, "self", "_umem">>, <<c.obj, "self", "_umem_buf">>}
        /\ SlotsOf(c) \subseteq Slots /\ "self" \in Members
    BY <1>2, ClassSlots, SlotsAreSlots DEF Members
  <2>2. /\ \A t \in SlotsOf(c) : ~Under(<<c.obj, "self", "_umem">>, t)
        /\ \A t \in SlotsOf(c) : t # <<c.obj, "self", "_umem">> =>
              ~Under(<<c.obj, "self", "_umem_buf">>, t)
    BY <2>1 DEF Under
  <2>3. LET g == UmemDestroy(h, c.obj, "self")
        IN  /\ Within(h, g, SlotsOf(c))
            /\ g.held[<<c.obj, "self", "_umem">>] = 0
            /\ g.held[<<c.obj, "self", "_umem_buf">>] = 0
    BY <2>1, <2>2, UmemWithin
  <2>4. Destructor(c, h) = UmemDestroy(h, c.obj, "self")
    BY <1>2 DEF Destructor
  <2> QED BY <2>1, <2>3, <2>4 DEF Emptied
<1>3. CASE c.op = "device"
  BY <1>3, DeviceDestroyEmpties DEF Destructor
<1>4. CASE c.op = "cq"
  BY <1>4, CqDestroyEmpties DEF Destructor
<1>5. CASE c.op = "qp"
  BY <1>5, QpDestroyEmpties DEF Destructor
<1>6. CASE c.op = "mr"
  BY <1>6, MrDestroyEmpties DEF Destructor
<1> QED BY <1>1, <1>2, <1>3, <1>4, <1>5, <1>6 DEF Classes

\* An object that holds nothing yet, and what its method is given.
Fresh(h, S) == \A s \in S : h.held[s] = 0
Available(h, c, s) == s \in Slots \ SlotsOf(c) /\ h.held[s] # 0 /\ \A t \in SlotsOf(c) : Under(s, t)

Supplied(h, c) ==
    /\ c.op \in {"pd", "umem", "uar", "cq", "qp", "mr"} => Available(h, c, Context(c.on.dev))
    /\ c.op \in {"qp", "mkey", "mr"} => Available(h, c, Pd(c.on.pd))
    /\ c.op = "qp" => /\ Available(h, c, <<c.on.cq, "self", "_cq">>)
                      /\ Available(h, c, <<c.on.uar, "self", "_uar">>)
                      /\ Available(h, c, <<c.on.sq, "self", "_umem">>)
                      /\ Available(h, c, <<c.on.db, "self", "_umem">>)

\* What a method may return: its handle made, or an error; no address handle yet.
OutcomeOK(h, r, c) ==
    /\ Within(h, r.heap, SlotsOf(c))
    /\ r.ok => r.heap.held[Handle(c)] # 0
    /\ ~r.ok /\ c.op \in SafeToRetry => Fresh(r.heap, SlotsOf(c))
    /\ c.op = "qp" => r.heap.held[<<c.obj, "self", "_ah">>] = 0

\* One call of the verbs library.
LEMMA CreateOutcomes ==
    ASSUME NEW h, HeapOK(h), NEW s \in Slots, h.held[s] = 0,
           NEW uses \in SUBSET Slots, \A u \in uses : h.held[u] # 0 /\ Under(u, s),
           NEW r \in Create(h, s, uses)
    PROVE  /\ HeapOK(r.heap)
           /\ \A t \in Slots : t # s => r.heap.held[t] = h.held[t]
           /\ r.ok \in BOOLEAN
           /\ r.ok => r.heap.held[s] # 0
           /\ ~r.ok => r.heap = h
<1>1. r = Ok(Grab(h, s, uses)) \/ r = Err(Hold(h, s, 0))
  BY DEF Create
<1>2. CASE r = Ok(Grab(h, s, uses))
  BY <1>2, GrabKeeps DEF Ok
<1>3. CASE r = Err(Hold(h, s, 0))
  BY <1>3, HoldNothing DEF Err
<1> QED BY <1>1, <1>2, <1>3

\* A registration leaves its memory registered, or nothing.
LEMMA UmemOutcomes ==
    ASSUME NEW h, HeapOK(h), NEW o \in Objects, NEW m \in Members, NEW dev,
           h.held[<<o, m, "_umem">>] = 0, h.held[<<o, m, "_umem_buf">>] = 0,
           Context(dev) \in Slots, h.held[Context(dev)] # 0,
           Under(Context(dev), <<o, m, "_umem">>),
           \A t \in Slots : h.held[t] # 0 => ~Under(<<o, m, "_umem_buf">>, t),
           NEW r \in UmemInitialize(h, o, m, dev)
    PROVE  /\ Within(h, r.heap, {<<o, m, "_umem">>, <<o, m, "_umem_buf">>})
           /\ r.ok \in BOOLEAN
           /\ r.ok => r.heap.held[<<o, m, "_umem">>] # 0
           /\ ~r.ok => r.heap.held[<<o, m, "_umem">>] = 0 /\ r.heap.held[<<o, m, "_umem_buf">>] = 0
<1> DEFINE u == <<o, m, "_umem">>
           b == <<o, m, "_umem_buf">>
           x == Context(dev)
           Rest(a) == {IF y.ok THEN y ELSE Err(Drop(y.heap, b)) : y \in Create(a, u, {b, x})}
<1>1. u \in Slots /\ b \in Slots /\ u # b /\ Under(b, u) /\ x # u /\ x # b
  <2>1. u \in Slots /\ b \in Slots /\ u # b
    BY IsSlot DEF Pointers
  <2>2. Under(b, u)
    BY UnderWithin
  <2>3. x # u /\ x # b
    BY DEF Context
  <2> QED BY <2>1, <2>2, <2>3
<1>2. r \in Then(Create(h, b, {}), LAMBDA a : Rest(a))
  BY DEF UmemInitialize
<1>3. \/ r \in Create(h, b, {}) /\ ~r.ok
      \/ \E y \in Create(h, b, {}) : y.ok /\ r \in Rest(y.heap)
  BY <1>2 DEF Then
<1> HIDE DEF u, b, x
<1>4. CASE r \in Create(h, b, {}) /\ ~r.ok
  BY <1>1, <1>4, CreateOutcomes DEF Within, u, b
<1>5. CASE \E y \in Create(h, b, {}) : y.ok /\ r \in Rest(y.heap)
  <2>1. PICK y \in Create(h, b, {}) : y.ok /\ r \in Rest(y.heap)
    BY <1>5
  <2> DEFINE g == y.heap
  <2>2. /\ HeapOK(g) /\ g.held[b] # 0
        /\ \A t \in Slots : t # b => g.held[t] = h.held[t]
    BY <1>1, <2>1, CreateOutcomes DEF b
  <2>3. PICK z \in Create(g, u, {b, x}) : r = IF z.ok THEN z ELSE Err(Drop(z.heap, b))
    BY <2>1
  <2> HIDE DEF g
  <2>4. /\ HeapOK(z.heap) /\ z.ok \in BOOLEAN
        /\ \A t \in Slots : t # u => z.heap.held[t] = g.held[t]
        /\ z.ok => z.heap.held[u] # 0
        /\ ~z.ok => z.heap = g
    <3>1. {b, x} \in SUBSET Slots /\ \A w \in {b, x} : g.held[w] # 0 /\ Under(w, u)
      BY <1>1, <2>2 DEF x, u
    <3>2. g.held[u] = 0
      BY <1>1, <2>2 DEF u
    <3> QED BY <1>1, <2>2, <2>3, <3>1, <3>2, CreateOutcomes
  <2>5. CASE z.ok
    BY <1>1, <2>2, <2>3, <2>4, <2>5 DEF Within, u, b
  <2>6. CASE ~z.ok
    <3>1. Clear(g, b)
      <4>1. \A t \in Slots : t # b /\ g.held[t] # 0 => ~Under(b, t)
        BY <2>2 DEF b
      <4>2. ~Under(b, b)
        BY UnderWithin DEF b
      <4> QED BY <4>1, <4>2 DEF Clear
    <3>2. r.heap = Drop(g, b) /\ ~r.ok
      BY <2>3, <2>4, <2>6 DEF Err
    <3>3. /\ HeapOK(Drop(g, b)) /\ Drop(g, b).held[b] = 0
          /\ \A t \in Slots : t # b => Drop(g, b).held[t] = g.held[t]
      BY <1>1, <2>2, <3>1, DropKeeps
    <3>4. r.ok \in BOOLEAN
      BY <2>3, <2>6 DEF Err
    <3> QED BY <1>1, <2>2, <3>2, <3>3, <3>4 DEF Within, u, b
  <2> QED BY <2>4, <2>5, <2>6
<1> QED BY <1>3, <1>4, <1>5

\* The classes whose one resource is made by one call.
LEMMA SimpleOutcomes ==
    ASSUME ~ConvertFails, NEW h, HeapOK(h), NEW c, c.op \in {"pd", "uar", "mkey"},
           c.obj \in Objects, Fresh(h, SlotsOf(c)), Supplied(h, c), NEW r \in Outcomes(c, h)
    PROVE  OutcomeOK(h, r, c)
<1> DEFINE s == Handle(c)
           x == IF c.op = "mkey" THEN Pd(c.on.pd) ELSE Context(c.on.dev)
<1>1. SlotsOf(c) = {s} /\ s \in Slots
  BY ClassSlots, SlotsAreSlots DEF Pd, Handle, Classes
<1>2. x \in Slots /\ h.held[x] # 0 /\ Under(x, s) /\ h.held[s] = 0
  BY <1>1 DEF Supplied, Available, Fresh
<1>3. r \in Create(h, s, {x})
      \/ \E y \in Create(h, s, {x}) : y.ok /\ r = Ok(y.heap)
  <2>1. CASE c.op = "pd"
    <3>1. s = Pd(c.obj) /\ x = Context(c.on.dev)
      BY <2>1 DEF Handle, Pd
    <3> HIDE DEF s, x
    <3>2. r \in PdInitialize(h, c.obj, c.on)
      BY <2>1 DEF Outcomes
    <3> QED BY <3>1, <3>2 DEF PdInitialize, Then
  <2>2. CASE c.op = "uar"
    BY <2>2 DEF Outcomes, UarInitialize, Handle
  <2>3. CASE c.op = "mkey"
    BY <2>3 DEF Outcomes, MkeyInitialize, Handle
  <2> QED BY <2>1, <2>2, <2>3
<1> HIDE DEF s, x
<1>4. PICK y \in Create(h, s, {x}) : r = y \/ (y.ok /\ r = Ok(y.heap))
  BY <1>3
<1>5. /\ HeapOK(y.heap)
      /\ \A t \in Slots : t # s => y.heap.held[t] = h.held[t]
      /\ y.ok \in BOOLEAN
      /\ y.ok => y.heap.held[s] # 0
      /\ ~y.ok => y.heap = h
  BY <1>1, <1>2, CreateOutcomes
<1>6. r.heap = y.heap /\ (r.ok => y.ok) /\ (~r.ok => ~y.ok)
  BY <1>4, <1>5 DEF Ok
<1> QED BY <1>1, <1>2, <1>5, <1>6 DEF OutcomeOK, Within, Fresh, s

\* A queue pair is made once, without an address handle.
LEMMA QpOutcomes ==
    ASSUME NEW h, HeapOK(h), NEW c, c.op = "qp",
           c.obj \in Objects, Fresh(h, SlotsOf(c)), Supplied(h, c), NEW r \in Outcomes(c, h)
    PROVE  OutcomeOK(h, r, c)
<1> DEFINE q == <<c.obj, "self", "_qp">>
           a == <<c.obj, "self", "_ah">>
           uses == {Context(c.on.dev), Pd(c.on.pd), <<c.on.cq, "self", "_cq">>,
                    <<c.on.uar, "self", "_uar">>, <<c.on.sq, "self", "_umem">>,
                    <<c.on.db, "self", "_umem">>}
<1>1. SlotsOf(c) = {q, a} /\ q \in Slots /\ a \in Slots /\ q # a /\ Handle(c) = q
  BY ClassSlots, SlotsAreSlots DEF Handle, Classes
<1>2. h.held[q] = 0 /\ h.held[a] = 0
  BY <1>1 DEF Fresh
<1>3. uses \in SUBSET Slots /\ \A u \in uses : h.held[u] # 0 /\ Under(u, q)
  BY <1>1 DEF Supplied, Available
<1>4. r \in Create(h, q, uses)
  BY <1>2 DEF Outcomes, QpInitialize
<1> HIDE DEF q, a, uses
<1>5. /\ HeapOK(r.heap)
      /\ \A t \in Slots : t # q => r.heap.held[t] = h.held[t]
      /\ r.ok => r.heap.held[q] # 0
      /\ ~r.ok => r.heap = h
  BY <1>1, <1>2, <1>3, <1>4, CreateOutcomes
<1> QED BY <1>1, <1>2, <1>5 DEF OutcomeOK, Within, Fresh, a

\* Whatever fails before the capabilities are asked for is undone.
LEMMA DeviceOutcomes ==
    ASSUME NEW h, HeapOK(h), NEW c, c.op = "device",
           c.obj \in Objects, Fresh(h, SlotsOf(c)), Top(h, SlotsOf(c)), NEW r \in Outcomes(c, h)
    PROVE  OutcomeOK(h, r, c)
<1> DEFINE o == c.obj
           l == <<o, "self", "_device_list">>
           x == Context(o)
           S == SlotsOf(c)
           Opened(a) == Then(Query(a), LAMBDA b : Then(Create(b, x, {}), Query))
           Undone(a) == {IF y.ok THEN y ELSE Err(DeviceDestroy(y.heap, o)) : y \in Opened(a)}
<1>1. S = {l, x} /\ l \in Slots /\ x \in Slots /\ l # x /\ Handle(c) = x
  BY ClassSlots, SlotsAreSlots DEF Handle, Classes, Context
<1>2. h.held[l] = 0 /\ h.held[x] = 0
  BY <1>1 DEF Fresh
<1>3. r \in Then(Create(h, l, {}), LAMBDA a : Then(Undone(a), Query))
  BY DEF Outcomes, DeviceInitialize
<1> HIDE DEF S, l, x
<1>4. \/ r \in Create(h, l, {}) /\ ~r.ok
      \/ \E y \in Create(h, l, {}) : r \in Then(Undone(y.heap), Query)
  BY <1>3 DEF Then
<1>5. CASE r \in Create(h, l, {}) /\ ~r.ok
  BY <1>1, <1>2, <1>5, CreateOutcomes DEF OutcomeOK, Within, SafeToRetry, S
<1>6. ASSUME NEW y \in Create(h, l, {}), r \in Then(Undone(y.heap), Query)
      PROVE  OutcomeOK(h, r, c)
  <2> DEFINE g == y.heap
  <2>1. Within(h, g, S) /\ Top(g, S) /\ HeapOK(g) /\ g.held[x] = 0
    <3>1. HeapOK(g) /\ \A t \in Slots : t # l => g.held[t] = h.held[t]
      BY <1>1, <1>2, <1>6, CreateOutcomes
    <3> HIDE DEF g
    <3> QED BY <1>1, <1>2, <3>1 DEF Within, Top, S
  <2>2. \A z \in Opened(g) : Within(h, z.heap, S) /\ (z.ok => z.heap.held[x] # 0)
    <3> SUFFICES ASSUME NEW z \in Opened(g)
                 PROVE  Within(h, z.heap, S) /\ (z.ok => z.heap.held[x] # 0)
      OBVIOUS
    <3> HIDE DEF g
    <3>1. \/ z = Err(g)
          \/ z \in Then(Create(g, x, {}), Query)
      BY DEF Then, Query, Ok, Err
    <3>2. CASE z = Err(g)
      BY <2>1, <3>2 DEF Err
    <3>3. CASE z \in Then(Create(g, x, {}), Query)
      <4>1. PICK w \in Create(g, x, {}) : \/ z = w /\ ~w.ok
                                          \/ w.ok /\ z.heap = w.heap
        BY <3>3 DEF Then, Query, Ok, Err
      <4>2. /\ HeapOK(w.heap) /\ (w.ok => w.heap.held[x] # 0)
            /\ \A t \in Slots : t # x => w.heap.held[t] = g.held[t]
        BY <1>1, <2>1, CreateOutcomes
      <4> QED BY <1>1, <2>1, <4>1, <4>2 DEF Within
    <3> QED BY <3>1, <3>2, <3>3
  <2> HIDE DEF Opened
  <2>3. \A z \in Undone(g) : Within(h, z.heap, S) /\ (z.ok => z.heap.held[x] # 0)
    <3> SUFFICES ASSUME NEW w \in Opened(g), ~w.ok
                 PROVE  Within(h, DeviceDestroy(w.heap, o), S)
      BY <2>2 DEF Err
    <3>1. Within(h, w.heap, S)
      BY <2>2
    <3>2. HeapOK(w.heap) /\ Top(w.heap, S)
      BY <3>1 DEF Within, Top, S
    <3>3. Emptied(w.heap, DeviceDestroy(w.heap, o), S)
      BY <3>2, DeviceDestroyEmpties DEF S
    <3> QED BY <3>1, <3>3 DEF Emptied, Within
  <2> HIDE DEF Undone, g
  <2>4. PICK z \in Undone(g) : (r = z /\ ~z.ok) \/ (z.ok /\ r.heap = z.heap)
    BY <1>6 DEF Then, Query, Ok, Err, g
  <2>5. Within(h, r.heap, S) /\ (r.ok => r.heap.held[x] # 0)
    BY <2>3, <2>4
  <2> QED BY <1>1, <2>5 DEF OutcomeOK, SafeToRetry, S
<1> QED BY <1>4, <1>5, <1>6

\* The memory of an object on top, given a device.
LEMMA UmemOnTop ==
    ASSUME NEW h, NEW S \in SUBSET Slots, NEW o \in Objects, NEW m \in Members, NEW dev,
           HeapOK(h), Top(h, S),
           <<o, m, "_umem">> \in S, <<o, m, "_umem_buf">> \in S,
           h.held[<<o, m, "_umem">>] = 0, h.held[<<o, m, "_umem_buf">>] = 0,
           \A t \in S : Under(<<o, m, "_umem_buf">>, t) => t = <<o, m, "_umem">>,
           Context(dev) \in Slots, h.held[Context(dev)] # 0,
           Under(Context(dev), <<o, m, "_umem">>),
           NEW r \in UmemInitialize(h, o, m, dev)
    PROVE  /\ Within(h, r.heap, S) /\ Top(r.heap, S) /\ HeapOK(r.heap)
           /\ \A t \in S \ {<<o, m, "_umem">>, <<o, m, "_umem_buf">>} :
                r.heap.held[t] = h.held[t]
           /\ r.ok \in BOOLEAN
           /\ r.ok => r.heap.held[<<o, m, "_umem">>] # 0
           /\ ~r.ok => r.heap.held[<<o, m, "_umem">>] = 0 /\ r.heap.held[<<o, m, "_umem_buf">>] = 0
<1> DEFINE u == <<o, m, "_umem">>
           b == <<o, m, "_umem_buf">>
<1>1. \A t \in Slots : h.held[t] # 0 => ~Under(b, t)
  BY DEF Top
<1>2. /\ Within(h, r.heap, {u, b})
      /\ r.ok \in BOOLEAN
      /\ r.ok => r.heap.held[u] # 0
      /\ ~r.ok => r.heap.held[u] = 0 /\ r.heap.held[b] = 0
  BY <1>1, UmemOutcomes
<1>3. u \in S /\ b \in S
  OBVIOUS
<1> HIDE DEF u, b
<1>4. Within(h, r.heap, S) /\ HeapOK(r.heap) /\ \A t \in S \ {u, b} : r.heap.held[t] = h.held[t]
  BY <1>2, <1>3 DEF Within
<1>5. Top(r.heap, S)
  BY <1>4 DEF Top, Within
<1> QED BY <1>2, <1>4, <1>5 DEF u, b

\* A user_memory that is made holds both its pointers; one that fails holds neither.
LEMMA UmemObjectOutcomes ==
    ASSUME NEW h, HeapOK(h), NEW c, c.op = "umem", c.obj \in Objects,
           Fresh(h, SlotsOf(c)), Top(h, SlotsOf(c)), Supplied(h, c), NEW r \in Outcomes(c, h)
    PROVE  OutcomeOK(h, r, c)
<1> DEFINE u == <<c.obj, "self", "_umem">>
           b == <<c.obj, "self", "_umem_buf">>
           S == SlotsOf(c)
<1>1. S = {u, b} /\ S \in SUBSET Slots /\ Handle(c) = u /\ "self" \in Members
  BY ClassSlots, SlotsAreSlots DEF Handle, Classes, Members
<1>2. u \in S /\ b \in S /\ \A t \in S : Under(b, t) => t = u
  BY <1>1 DEF Under
<1>3. Context(c.on.dev) \in Slots /\ h.held[Context(c.on.dev)] # 0 /\ Under(Context(c.on.dev), u)
  BY <1>2 DEF Supplied, Available
<1>4. r \in UmemInitialize(h, c.obj, "self", c.on.dev)
  BY DEF Outcomes
<1>5. h.held[u] = 0 /\ h.held[b] = 0
  BY <1>2 DEF Fresh
<1>6. /\ Within(h, r.heap, S)
      /\ r.ok => r.heap.held[u] # 0
      /\ ~r.ok => r.heap.held[u] = 0 /\ r.heap.held[b] = 0
  <2>1. S \in SUBSET Slots /\ "self" \in Members /\ Top(h, S)
    BY <1>1
  <2> HIDE DEF S
  <2> QED BY <1>2, <1>3, <1>4, <1>5, <2>1, UmemOnTop
<1> QED BY <1>1, <1>6 DEF OutcomeOK, Fresh

\* The memory of a region comes before its key; a failed key keeps it.
LEMMA MrOutcomes ==
    ASSUME NEW h, HeapOK(h), NEW c, c.op = "mr", c.obj \in Objects,
           Fresh(h, SlotsOf(c)), Top(h, SlotsOf(c)), Supplied(h, c), NEW r \in Outcomes(c, h)
    PROVE  OutcomeOK(h, r, c)
<1> DEFINE o == c.obj
           q == <<o, "self", "_cross_mr">>
           u == <<o, "_umem", "_umem">>
           b == <<o, "_umem", "_umem_buf">>
           S == SlotsOf(c)
           x == Context(c.on.dev)
           uses == {x, Pd(c.on.pd), u}
           Key(a) == Create(a, q, uses)
<1>1. S = {q, u, b} /\ S \in SUBSET Slots /\ Handle(c) = q /\ "_umem" \in Members
  BY ClassSlots, SlotsAreSlots DEF Handle, Classes, Members
<1>2. /\ q \in S /\ u \in S /\ b \in S /\ \A t \in S : Under(b, t) => t = u
      /\ q \notin {u, b} /\ Under(u, q)
  BY <1>1 DEF Under
<1>3. h.held[q] = 0 /\ h.held[u] = 0 /\ h.held[b] = 0
  BY <1>2 DEF Fresh
<1>4. /\ x \in Slots \ S /\ h.held[x] # 0 /\ Under(x, u) /\ Under(x, q)
      /\ Pd(c.on.pd) \in Slots \ S /\ h.held[Pd(c.on.pd)] # 0 /\ Under(Pd(c.on.pd), q)
  BY <1>2 DEF Supplied, Available
<1>5. CreateUserMemory(h, o, c.on.dev) = UmemInitialize(h, o, "_umem", c.on.dev)
  <2>1. Hold(h, u, 0) = h /\ Hold(h, b, 0) = h
    BY <1>1, <1>2, <1>3, HoldNothing
  <2> QED BY <2>1 DEF CreateUserMemory
<1>6. r \in Then(CreateUserMemory(h, o, c.on.dev), LAMBDA a : Key(a))
  BY <1>3 DEF Outcomes, MrInitialize
<1>7. PICK y \in UmemInitialize(h, o, "_umem", c.on.dev) :
          (r = y /\ ~y.ok) \/ (y.ok /\ r \in Key(y.heap))
  BY <1>5, <1>6 DEF Then
<1> DEFINE g == y.heap
<1>8. /\ Within(h, g, S) /\ HeapOK(g) /\ g.held[q] = 0
      /\ y.ok => g.held[u] # 0
  <2>1. S \in SUBSET Slots /\ "_umem" \in Members /\ Top(h, S)
    BY <1>1
  <2>2. q # u /\ q # b
    BY <1>2
  <2> HIDE DEF S
  <2>3. /\ Within(h, g, S) /\ HeapOK(g)
        /\ \A t \in S \ {u, b} : g.held[t] = h.held[t]
        /\ y.ok => g.held[u] # 0
    <3>1. x \in Slots /\ h.held[x] # 0 /\ Under(x, u)
      BY <1>4
    <3>2. u \in S /\ b \in S /\ (\A t \in S : Under(b, t) => t = u) /\ h.held[u] = 0 /\ h.held[b] = 0
      BY <1>2, <1>3
    <3> HIDE DEF uses, Key
    <3> QED BY <3>1, <3>2, <2>1, UmemOnTop
  <2> QED BY <1>2, <1>3, <2>2, <2>3
<1> HIDE DEF g, S, q, u, b, x
<1>9. CASE r = y /\ ~y.ok
  BY <1>8, <1>9 DEF OutcomeOK, SafeToRetry, S, g
<1>10. CASE y.ok /\ r \in Key(g)
  <2>1. q \in Slots /\ u \in Slots
    BY <1>1, <1>2
  <2>2. uses \in SUBSET Slots /\ \A w \in uses : g.held[w] # 0 /\ Under(w, q)
    BY <1>2, <1>4, <1>8, <1>10, <2>1 DEF Within
  <2> HIDE DEF uses
  <2>3. /\ HeapOK(r.heap)
        /\ \A t \in Slots : t # q => r.heap.held[t] = g.held[t]
        /\ r.ok => r.heap.held[q] # 0
    BY <1>8, <1>10, <2>1, <2>2, CreateOutcomes
  <2> QED BY <1>1, <1>2, <1>8, <2>3 DEF OutcomeOK, Within, SafeToRetry, S
<1> QED BY <1>7, <1>9, <1>10 DEF g

\* Register, doorbell record and ring come before the queue.
LEMMA CqOutcomes ==
    ASSUME NEW h, HeapOK(h), NEW c, c.op = "cq", c.obj \in Objects,
           Fresh(h, SlotsOf(c)), Top(h, SlotsOf(c)), Supplied(h, c), NEW r \in Outcomes(c, h)
    PROVE  OutcomeOK(h, r, c)
<1> DEFINE o == c.obj
           S == SlotsOf(c)
           x == Context(c.on.dev)
           q == <<o, "self", "_cq">>
           a == <<o, "_uar", "_uar">>
           u == <<o, "_umem", "_umem">>
           b == <<o, "_umem", "_umem_buf">>
           v == <<o, "_umem_db", "_umem">>
           d == <<o, "_umem_db", "_umem_buf">>
           uses == {x, a, v, u}
           Queue(k) == Create(k, q, uses)
           Number(k) == Then(Query(k), LAMBDA l : Queue(l))
           Ring(k) == Then(UmemInitialize(k, o, "_umem", c.on.dev), LAMBDA l : Number(l))
           Record(k) == Then(UmemInitialize(k, o, "_umem_db", c.on.dev), LAMBDA l : Ring(l))
<1>1. S = {q, a, u, b, v, d} /\ S \in SUBSET Slots /\ Handle(c) = q
      /\ "_umem" \in Members /\ "_umem_db" \in Members
  BY ClassSlots, SlotsAreSlots DEF Handle, Classes, Members
<1>2. /\ q \in S /\ a \in S /\ u \in S /\ b \in S /\ v \in S /\ d \in S
      /\ \A t \in S : Under(b, t) => t = u
      /\ \A t \in S : Under(d, t) => t = v
  BY <1>1 DEF Under
<1>3. Under(a, q) /\ Under(v, q) /\ Under(u, q)
  BY DEF Under
<1>4. q \notin {a, u, b, v, d} /\ a \notin {u, b, v, d} /\ u \notin {b, v, d} /\ b \notin {v, d} /\ v # d
  OBVIOUS
<1>5. /\ x \in Slots \ S /\ h.held[x] # 0
      /\ Under(x, u) /\ Under(x, v) /\ Under(x, q) /\ Under(x, a)
  BY <1>2 DEF Supplied, Available
<1>6. S \in SUBSET Slots /\ Top(h, S) /\ Fresh(h, S) /\ \A s \in S : s \in Slots
  BY <1>1
<1>7. r \in Then(UarInitialize(h, o, "_uar", c.on.dev), LAMBDA k : Record(k))
  BY DEF Outcomes, CqInitialize
<1>8. PICK y \in Create(h, a, {x}) : (r = y /\ ~y.ok) \/ (y.ok /\ r \in Record(y.heap))
  BY <1>7 DEF UarInitialize, Then
<1> HIDE DEF S, Record
<1>9. /\ HeapOK(y.heap) /\ Within(h, y.heap, S) /\ Top(y.heap, S)
      /\ \A t \in S : t # a => y.heap.held[t] = 0
      /\ y.ok => y.heap.held[a] # 0
  <2> HIDE DEF a, x
  <2>1. /\ HeapOK(y.heap)
        /\ \A t \in Slots : t # a => y.heap.held[t] = h.held[t]
        /\ y.ok => y.heap.held[a] # 0
    BY <1>2, <1>5, <1>6, CreateOutcomes DEF Fresh
  <2> QED BY <1>2, <1>6, <2>1 DEF Within, Top, Fresh
<1>10. CASE r = y /\ ~y.ok
  BY <1>9, <1>10 DEF OutcomeOK, SafeToRetry, S
<1>11. CASE y.ok /\ r \in Record(y.heap)
  <2> DEFINE g == y.heap
  <2>1. PICK z \in UmemInitialize(g, o, "_umem_db", c.on.dev) :
            (r = z /\ ~z.ok) \/ (z.ok /\ r \in Ring(z.heap))
    BY <1>11 DEF Record, Then
  <2> HIDE DEF Ring
  <2>2. /\ HeapOK(z.heap) /\ Within(g, z.heap, S) /\ Top(z.heap, S)
        /\ \A t \in S \ {v, d} : z.heap.held[t] = g.held[t]
        /\ z.ok => z.heap.held[v] # 0
    <3>1. HeapOK(g) /\ Top(g, S) /\ x \in Slots /\ g.held[x] # 0 /\ Under(x, v)
      BY <1>5, <1>9 DEF Within
    <3>2. v \in S /\ d \in S /\ (\A t \in S : Under(d, t) => t = v) /\ g.held[v] = 0 /\ g.held[d] = 0
      BY <1>2, <1>4, <1>9
    <3>3. S \in SUBSET Slots /\ "_umem_db" \in Members
      BY <1>1
    <3>4. z \in UmemInitialize(g, o, "_umem_db", c.on.dev)
      BY <2>1
    <3> HIDE DEF g, uses, Queue, Number, q, a, u, b
    <3>5. /\ Within(g, z.heap, S) /\ Top(z.heap, S) /\ HeapOK(z.heap)
          /\ \A t \in S \ {<<o, "_umem_db", "_umem">>, <<o, "_umem_db", "_umem_buf">>} :
                z.heap.held[t] = g.held[t]
          /\ z.ok \in BOOLEAN
          /\ z.ok => z.heap.held[<<o, "_umem_db", "_umem">>] # 0
          /\ ~z.ok => /\ z.heap.held[<<o, "_umem_db", "_umem">>] = 0
                     /\ z.heap.held[<<o, "_umem_db", "_umem_buf">>] = 0
      BY <3>1, <3>2, <3>3, <3>4, UmemOnTop
    <3> QED BY <3>5
  <2>3. CASE r = z /\ ~z.ok
    BY <1>9, <2>2, <2>3 DEF OutcomeOK, Within, SafeToRetry, S
  <2>4. CASE z.ok /\ r \in Ring(z.heap)
    <3> DEFINE g2 == z.heap
    <3>1. PICK w \in UmemInitialize(g2, o, "_umem", c.on.dev) :
              (r = w /\ ~w.ok) \/ (w.ok /\ r \in Number(w.heap))
      BY <2>4 DEF Ring, Then
    <3> HIDE DEF Number
    <3>2. /\ HeapOK(w.heap) /\ Within(g2, w.heap, S) /\ Top(w.heap, S)
          /\ \A t \in S \ {u, b} : w.heap.held[t] = g2.held[t]
          /\ w.ok => w.heap.held[u] # 0
      <4>1. HeapOK(g2) /\ Top(g2, S) /\ x \in Slots /\ g2.held[x] # 0 /\ Under(x, u)
        BY <1>5, <1>9, <2>2 DEF Within
      <4>2. u \in S /\ b \in S /\ (\A t \in S : Under(b, t) => t = u) /\ g2.held[u] = 0 /\ g2.held[b] = 0
        BY <1>2, <1>4, <1>9, <2>2
      <4>3. S \in SUBSET Slots /\ "_umem" \in Members
        BY <1>1
      <4> HIDE DEF g2, uses
      <4> QED BY <4>1, <4>2, <4>3, UmemOnTop
    <3>3. Within(h, w.heap, S)
      BY <1>9, <2>2, <3>2 DEF Within
    <3>4. CASE r = w /\ ~w.ok
      BY <3>3, <3>4 DEF OutcomeOK, SafeToRetry, S
    <3>5. CASE w.ok /\ r \in Number(w.heap)
      <4> DEFINE g3 == w.heap
      <4>1. \/ r.heap = g3 /\ ~r.ok
            \/ r \in Queue(g3)
        <5>1. r \in Then(Query(g3), LAMBDA l : Queue(l))
          BY <3>5 DEF Number
        <5> HIDE DEF Queue, g3
        <5> QED BY <5>1 DEF Then, Query, Ok, Err
      <4>2. CASE r.heap = g3 /\ ~r.ok
        BY <3>3, <4>2 DEF OutcomeOK, SafeToRetry, S
      <4>3. CASE r \in Queue(g3)
        <5>1. /\ g3.held[x] # 0 /\ g3.held[a] # 0 /\ g3.held[v] # 0 /\ g3.held[u] # 0
              /\ g3.held[q] = 0
          BY <1>2, <1>4, <1>5, <1>9, <1>11, <2>2, <2>4, <3>2, <3>3, <3>5 DEF Within
        <5>2. uses \in SUBSET Slots /\ \A s \in uses : g3.held[s] # 0 /\ Under(s, q)
          BY <1>2, <1>3, <1>5, <1>6, <5>1
        <5>3. q \in Slots /\ HeapOK(g3)
          BY <1>2, <1>6, <3>2
        <5> HIDE DEF g3, uses, q
        <5>4. /\ HeapOK(r.heap)
              /\ \A t \in Slots : t # q => r.heap.held[t] = g3.held[t]
              /\ r.ok => r.heap.held[q] # 0
          BY <4>3, <5>1, <5>2, <5>3, CreateOutcomes
        <5> QED BY <1>1, <1>2, <3>3, <5>4 DEF OutcomeOK, Within, SafeToRetry, S, g3
      <4> QED BY <4>1, <4>2, <4>3
    <3> QED BY <3>1, <3>4, <3>5
  <2> QED BY <2>1, <2>3, <2>4
<1> QED BY <1>8, <1>10, <1>11

\* Every method that makes an object, whichever of its calls fails.
LEMMA ConstructorOutcomes ==
    ASSUME ~ConvertFails, NEW h, HeapOK(h), NEW c, c.op \in Classes, c.obj \in Objects,
           Fresh(h, SlotsOf(c)), Top(h, SlotsOf(c)), Supplied(h, c), NEW r \in Outcomes(c, h)
    PROVE  OutcomeOK(h, r, c)
<1>1. CASE c.op \in {"pd", "uar", "mkey"}
  BY <1>1, SimpleOutcomes
<1>2. CASE c.op = "device"
  BY <1>2, DeviceOutcomes
<1>3. CASE c.op = "umem"
  BY <1>3, UmemObjectOutcomes
<1>4. CASE c.op = "cq"
  BY <1>4, CqOutcomes
<1>5. CASE c.op = "qp"
  BY <1>5, QpOutcomes
<1>6. CASE c.op = "mr"
  BY <1>6, MrOutcomes
<1> QED BY <1>1, <1>2, <1>3, <1>4, <1>5, <1>6 DEF Classes

--------------------------------------------------------------------------------
(***************************************************************************)
(* Objects in the order they are made.                                     *)
(***************************************************************************)

\* What the scoping of C++ says of a call.
LEMMA CallIsScoped ==
    ASSUME NEW i \in 1 .. Len(Program)
    PROVE  /\ WellScoped(Program[i], i)
           /\ Program[i].obj \in Objects
           /\ Constructs(Program[i]) <=> Program[i].op \in Classes
           /\ Constructs(Program[i]) => Program[i].obj \notin Outer
<1>1. WellScoped(Program[i], i) /\ (Constructs(Program[i]) => Program[i].obj \notin Outer)
  BY ProgramAssumption
<1>2. Program[i].op \in Commands \cup Classes
  BY <1>1 DEF WellScoped, Classes
<1> QED BY <1>1, <1>2 DEF Objects, Constructs, Commands, Classes

\* An object is made by one call of the program.
LEMMA OrderOfMade ==
    ASSUME NEW i \in 1 .. Len(Program), Constructs(Program[i])
    PROVE  Order(Program[i].obj) = i
<1>1. Program[i].obj \notin Outer
  BY CallIsScoped
<1>2. \A j \in 1 .. Len(Program) : Constructs(Program[j]) /\ Program[j].obj = Program[i].obj => j = i
  BY ProgramAssumption
<1> QED BY <1>1, <1>2 DEF Order

\* A call that makes an object is known by it.
LEMMA MadeOnce ==
    ASSUME NEW c \in Calls, NEW d \in Calls, Constructs(c), Constructs(d), c.obj = d.obj
    PROVE  c = d
BY ProgramAssumption DEF Calls

\* The call that makes an object is found by the object's order.
LEMMA OrderOfCall ==
    ASSUME NEW c \in Calls, Constructs(c)
    PROVE  /\ Order(c.obj) \in 1 .. Len(Program) /\ Program[Order(c.obj)] = c
           /\ c.op \in Classes /\ c.obj \in Objects /\ c.obj \notin Outer
<1>1. PICK i \in 1 .. Len(Program) : c = Program[i]
  BY DEF Calls
<1> QED BY <1>1, OrderOfMade, CallIsScoped

\* The pointers of an object carry its name.
LEMMA SlotsOfObject ==
    ASSUME NEW c, c.op \in Classes, NEW s \in SlotsOf(c)
    PROVE  s[1] = c.obj
BY DEF SlotsOf, Classes

\* The handle of an object is a pointer of it, and no address handle.
LEMMA HandleOfObject ==
    ASSUME NEW c, c.op \in Classes, c.obj \in Objects
    PROVE  /\ Handle(c) \in SlotsOf(c) /\ Handle(c) \in Slots
           /\ Handle(c)[1] = c.obj /\ Handle(c)[3] # "_ah"
<1>1. Handle(c) \in SlotsOf(c)
  BY DEF Handle, SlotsOf, Classes
<1>2. Handle(c)[1] = c.obj /\ Handle(c)[3] # "_ah"
  BY DEF Handle, Classes
<1> QED BY <1>1, <1>2, SlotsAreSlots

\* What the caller brings is held in slots of objects the program does not make.
LEMMA OuterSlotsAreSlots ==
    ASSUME NEW s \in OuterSlots
    PROVE  s \in Slots /\ s[1] \in Outer /\ s[3] # "_ah" /\ s \in Outer \X Members \X Pointers
BY DEF OuterSlots, Slots, Objects, Members, Pointers, Context

\* An object made before call i is lower than what call i makes.
LEMMA MadeBefore ==
    ASSUME NEW i \in 1 .. Len(Program), NEW class \in Classes, NEW o, Made(class, o, i)
    PROVE  /\ o \in Objects /\ Order(o) \in 0 .. i - 1
           /\ \/ class = "device" /\ o \in Outer
              \/ \E j \in 1 .. i - 1 : /\ Program[j].op = class /\ Program[j].obj = o
                                       /\ Constructs(Program[j]) /\ j \in 1 .. Len(Program)
<1>0. Len(Program) \in Nat
  BY ProgramAssumption
<1>1. CASE class = "device" /\ o \in Outer
  BY <1>0, <1>1 DEF Objects, Order
<1>2. CASE \E j \in 1 .. i - 1 : Program[j].op = class /\ Program[j].obj = o
  <2>1. PICK j \in 1 .. i - 1 : Program[j].op = class /\ Program[j].obj = o
    BY <1>2
  <2>2. j \in 1 .. Len(Program)
    BY <1>0
  <2>3. Constructs(Program[j]) /\ o \in Objects
    BY <2>1, <2>2, CallIsScoped
  <2>4. Order(o) = j
    BY <2>1, <2>2, <2>3, OrderOfMade
  <2> QED BY <2>1, <2>2, <2>3, <2>4
<1> QED BY <1>1, <1>2 DEF Made

--------------------------------------------------------------------------------
(***************************************************************************)
(* The objects of a state.                                                 *)
(***************************************************************************)

\* Every frame entry is a call of the program that makes an object.
LEMMA FrameCalls ==
    ASSUME FrameInv, NEW i \in 1 .. Len(frame)
    PROVE  /\ frame[i] \in Calls /\ Constructs(frame[i])
           /\ Order(frame[i].obj) \in 1 .. Len(Program)
           /\ frame[i].op \in Classes /\ frame[i].obj \in Objects /\ frame[i].obj \notin Outer
BY OrderOfCall DEF FrameInv

\* What is held is a given device's or a local's.
LEMMA HeldBy ==
    ASSUME FrameInv, HoldInv, NEW t \in Slots, heap.held[t] # 0
    PROVE  \/ t \in OuterSlots /\ t[1] \in Outer /\ Order(t[1]) = 0
           \/ \E i \in 1 .. Len(frame) : t \in SlotsOf(frame[i]) /\ t[1] = frame[i].obj
<1>1. CASE t \in OuterSlots
  BY <1>1, OuterSlotsAreSlots DEF Order
<1>2. CASE \E i \in 1 .. Len(frame) : t \in SlotsOf(frame[i])
  BY <1>2, FrameCalls, SlotsOfObject
<1> QED BY <1>1, <1>2 DEF HoldInv

\* An object is above all locals that were made before it.
LEMMA TopOfFrame ==
    ASSUME FrameInv, HoldInv, NEW c \in Calls, Constructs(c),
           \A i \in 1 .. Len(frame) : Order(frame[i].obj) < Order(c.obj) \/ frame[i] = c
    PROVE  Top(heap, SlotsOf(c))
<1> SUFFICES ASSUME NEW s \in SlotsOf(c), NEW t \in Slots \ SlotsOf(c), heap.held[t] # 0
             PROVE  ~Under(s, t)
  BY DEF Top
<1>1. c.op \in Classes /\ s[1] = c.obj /\ Order(c.obj) \in 1 .. Len(Program) /\ c.obj \notin Outer
  BY OrderOfCall, SlotsOfObject
<1>2. t[1] # c.obj /\ Order(t[1]) \in Nat /\ Order(t[1]) < Order(c.obj)
  <2>1. CASE t[1] \in Outer /\ Order(t[1]) = 0
    BY <1>1, <2>1
  <2>2. CASE \E i \in 1 .. Len(frame) : t \in SlotsOf(frame[i]) /\ t[1] = frame[i].obj
    <3>1. PICK i \in 1 .. Len(frame) : t \in SlotsOf(frame[i]) /\ t[1] = frame[i].obj
      BY <2>2
    <3>2. Order(frame[i].obj) \in 1 .. Len(Program)
      BY FrameCalls
    <3>3. Order(frame[i].obj) < Order(c.obj)
      BY <3>1
    <3> QED BY <1>1, <3>1, <3>2, <3>3
  <2> QED BY <2>1, <2>2, HeldBy
<1> QED BY <1>1, <1>2 DEF Under

\* While the program runs, an object made before is there.
LEMMA MadeIsThere ==
    ASSUME FrameInv, HoldInv, RunningInv, at \in 1 .. Len(Program),
           NEW d, d.op \in Classes, Made(d.op, d.obj, at)
    PROVE  /\ Handle(d) \in Slots /\ heap.held[Handle(d)] # 0 /\ Handle(d)[1] = d.obj
           /\ Order(d.obj) \in 0 .. at - 1
<1>1. d.obj \in Objects /\ Order(d.obj) \in 0 .. at - 1
  BY MadeBefore
<1>2. Handle(d) \in Slots /\ Handle(d)[1] = d.obj
  BY <1>1, HandleOfObject
<1>3. CASE d.op = "device" /\ d.obj \in Outer
  <2>1. Handle(d) = Context(d.obj) /\ Context(d.obj) \in OuterSlots
    BY <1>3 DEF Handle, Context, OuterSlots
  <2> QED BY <1>1, <1>2, <2>1 DEF HoldInv
<1>4. CASE \E j \in 1 .. at - 1 : /\ Program[j].op = d.op /\ Program[j].obj = d.obj
                                  /\ Constructs(Program[j]) /\ j \in 1 .. Len(Program)
  <2>1. PICK j \in 1 .. at - 1 : /\ Program[j].op = d.op /\ Program[j].obj = d.obj
                                 /\ Constructs(Program[j])
    BY <1>4
  <2>2. Handle(d) = Handle(Program[j])
    BY <2>1 DEF Handle
  <2> QED BY <1>1, <1>2, <2>1, <2>2 DEF RunningInv
<1> QED BY <1>1, <1>2, <1>3, <1>4, MadeBefore

\* It may be used by what is made now.
LEMMA MadeIsAvailable ==
    ASSUME FrameInv, HoldInv, RunningInv, at \in 1 .. Len(Program), Constructs(Program[at]),
           NEW d, d.op \in Classes, Made(d.op, d.obj, at)
    PROVE  Available(heap, Program[at], Handle(d))
<1> DEFINE c == Program[at]
<1>1. /\ Handle(d) \in Slots /\ heap.held[Handle(d)] # 0 /\ Handle(d)[1] = d.obj
      /\ Order(d.obj) \in 0 .. at - 1
  BY MadeIsThere
<1>2. c.op \in Classes /\ Order(c.obj) = at
  BY CallIsScoped, OrderOfMade
<1>3. Order(d.obj) < Order(c.obj) /\ d.obj # c.obj
  BY <1>1, <1>2
<1>4. \A t \in SlotsOf(c) : t[1] = c.obj
  BY <1>2, SlotsOfObject
<1> HIDE DEF c
<1>5. \A t \in SlotsOf(c) : Under(Handle(d), t)
  BY <1>1, <1>3, <1>4 DEF Under
<1>6. Handle(d) \notin SlotsOf(c)
  BY <1>1, <1>3, <1>4
<1> QED BY <1>1, <1>5, <1>6 DEF Available, c

\* The objects a call uses have been made before it.
LEMMA CallIsSupplied ==
    ASSUME FrameInv, HoldInv, RunningInv, at \in 1 .. Len(Program), Constructs(Program[at])
    PROVE  Supplied(heap, Program[at])
<1> DEFINE c == Program[at]
           There(class, o) == Available(heap, c, Handle(New(class, o, c)))
<1>1. WellScoped(c, at)
  BY CallIsScoped
<1>2. ASSUME NEW class \in Classes, NEW o, Made(class, o, at)
      PROVE  There(class, o)
  <2>1. New(class, o, c).op = class /\ New(class, o, c).obj = o
    BY DEF New
  <2> HIDE DEF c
  <2>2. PICK d : d = New(class, o, c)
    OBVIOUS
  <2>3. Available(heap, Program[at], Handle(d))
    BY <1>2, <2>1, <2>2, MadeIsAvailable
  <2> QED BY <2>2, <2>3 DEF c
<1>3. \A o : /\ Handle(New("device", o, c)) = Context(o)
             /\ Handle(New("pd", o, c)) = Pd(o)
             /\ Handle(New("cq", o, c)) = <<o, "self", "_cq">>
             /\ Handle(New("uar", o, c)) = <<o, "self", "_uar">>
             /\ Handle(New("umem", o, c)) = <<o, "self", "_umem">>
  BY DEF Handle, New, Context, Pd
<1>4. \A o : /\ Made("device", o, at) => Available(heap, c, Context(o))
             /\ Made("pd", o, at) => Available(heap, c, Pd(o))
             /\ Made("cq", o, at) => Available(heap, c, <<o, "self", "_cq">>)
             /\ Made("uar", o, at) => Available(heap, c, <<o, "self", "_uar">>)
             /\ Made("umem", o, at) => Available(heap, c, <<o, "self", "_umem">>)
  <2> TAKE o
  <2>1. \A class \in Classes : Made(class, o, at) => There(class, o)
    BY <1>2
  <2> HIDE DEF c
  <2> QED BY <1>3, <2>1 DEF Classes
<1> HIDE DEF c
<1> QED BY <1>1, <1>4 DEF Supplied, WellScoped, c

--------------------------------------------------------------------------------
(***************************************************************************)
(* A call that makes an object.                                            *)
(***************************************************************************)

\* The outcome of a constructing call in a running program.
LEMMA MakingOutcome ==
    ASSUME ~ConvertFails, ResInv, phase = "running", at \in 1 .. Len(Program),
           Constructs(Program[at]), NEW r \in Outcomes(Program[at], heap)
    PROVE  OutcomeOK(heap, r, Program[at])
<1> DEFINE c == Program[at]
<1>1. FrameInv /\ HoldInv /\ RunningInv /\ HeapOK(heap) /\ Len(Program) \in Nat
  BY ProgramAssumption DEF ResInv
<1>2. c \in Calls /\ c.op \in Classes /\ c.obj \in Objects /\ Order(c.obj) = at
  BY OrderOfMade, CallIsScoped DEF Calls
<1>3. Fresh(heap, SlotsOf(c))
  BY <1>1 DEF RunningInv, Fresh
<1>4. \A i \in 1 .. Len(frame) : Order(frame[i].obj) < Order(c.obj) \/ frame[i] = c
  <2> SUFFICES ASSUME NEW i \in 1 .. Len(frame), ~(Order(frame[i].obj) < Order(c.obj))
               PROVE  frame[i] = c
    OBVIOUS
  <2>1. Order(frame[i].obj) = at
    BY <1>1, <1>2 DEF RunningInv
  <2>2. frame[i] = Program[at]
    BY <1>1, <2>1, FrameCalls, OrderOfCall
  <2> QED BY <2>2
<1>5. Top(heap, SlotsOf(c))
  BY <1>1, <1>2, <1>4, TopOfFrame
<1>6. Supplied(heap, c)
  BY <1>1, CallIsSupplied
<1> QED BY <1>1, <1>2, <1>3, <1>5, <1>6, ConstructorOutcomes

\* The local is declared at its first call only.
LEMMA DeclareKeeps ==
    ASSUME ResInv, phase = "running", at \in 1 .. Len(Program),
           Constructs(Program[at]), frame' = Declare(Program[at])
    PROVE  /\ FrameInv'
           /\ Len(frame') \in Nat
           /\ \A i \in 1 .. Len(frame') : frame'[i] = Program[at] \/ Order(frame'[i].obj) < at
           /\ \A i \in 1 .. Len(frame) : \E j \in 1 .. Len(frame') : frame'[j] = frame[i]
           /\ frame' # <<>> /\ Last(frame') = Program[at]
<1> DEFINE c == Program[at]
<1>1. FrameInv /\ RunningInv /\ frame \in Seq(Calls) /\ Len(frame) \in Nat /\ Len(Program) \in Nat
  BY ProgramAssumption DEF ResInv, FrameInv
<1>2. c \in Calls /\ Order(c.obj) = at
  BY OrderOfMade DEF Calls
<1>3. CASE tries = 0
  <2>1. frame' = Append(frame, c)
    BY <1>3 DEF Declare
  <2>2. \A i \in 1 .. Len(frame) : Order(frame[i].obj) < at
    BY <1>1, <1>3 DEF RunningInv
  <2> HIDE DEF c
  <2>3. /\ frame' \in Seq(Calls) /\ Len(frame') = Len(frame) + 1 /\ frame'[Len(frame) + 1] = c
        /\ \A i \in 1 .. Len(frame) : frame'[i] = frame[i]
        /\ frame' # <<>>
    BY <1>1, <1>2, <2>1
  <2>4. Constructs(c)
    BY DEF c
  <2>5. FrameInv'
    <3>1. \A i \in 1 .. Len(frame') : Constructs(frame'[i])
      BY <1>1, <2>3, <2>4 DEF FrameInv
    <3>2. ASSUME NEW i \in 1 .. Len(frame'), NEW j \in 1 .. Len(frame'), i < j
          PROVE  Order(frame'[i].obj) < Order(frame'[j].obj)
      <4>1. CASE j = Len(frame) + 1
        BY <1>1, <1>2, <2>2, <2>3, <3>2, <4>1
      <4>2. CASE j # Len(frame) + 1
        <5>1. i \in 1 .. Len(frame) /\ j \in 1 .. Len(frame)
          BY <1>1, <2>3, <3>2, <4>2
        <5>2. frame'[i] = frame[i] /\ frame'[j] = frame[j]
          BY <2>3, <5>1
        <5> QED BY <1>1, <3>2, <5>1, <5>2 DEF FrameInv
      <4> QED BY <4>1, <4>2
    <3> QED BY <2>3, <3>1, <3>2 DEF FrameInv
  <2>6. Last(frame') = c
    BY <1>1, <2>3 DEF Last
  <2>7. \A i \in 1 .. Len(frame') : frame'[i] = c \/ Order(frame'[i].obj) < at
    BY <1>1, <2>2, <2>3
  <2>8. \A i \in 1 .. Len(frame) : i \in 1 .. Len(frame')
    BY <1>1, <2>3
  <2> QED BY <1>1, <2>3, <2>5, <2>6, <2>7, <2>8 DEF c
<1>4. CASE tries # 0
  <2>1. frame' = frame /\ tries > 0
    BY <1>4 DEF Declare, ResInv
  <2>2. FrameInv'
    BY <1>1, <2>1 DEF FrameInv
  <2>3. frame # <<>> /\ Last(frame) = c
    BY <1>1, <2>1 DEF RunningInv
  <2>4. ASSUME NEW i \in 1 .. Len(frame), ~(Order(frame[i].obj) < at)
        PROVE  frame[i] = c
    <3>1. Order(frame[i].obj) = at
      BY <1>1, <2>4 DEF RunningInv
    <3> QED BY <1>1, <3>1, FrameCalls, OrderOfCall
  <2> QED BY <1>1, <2>1, <2>2, <2>3, <2>4
<1> QED BY <1>3, <1>4

\* What the call may have made belongs to its object.
LEMMA MakingHolds ==
    ASSUME ResInv, phase = "running", at \in 1 .. Len(Program),
           Constructs(Program[at]), frame' = Declare(Program[at]),
           Within(heap, heap', SlotsOf(Program[at]))
    PROVE  HoldInv'
<1> DEFINE c == Program[at]
<1>1. HoldInv /\ FrameInv /\ c \in Calls /\ c.op \in Classes /\ c.obj \notin Outer
  BY CallIsScoped DEF ResInv, Calls
<1>2. /\ \A i \in 1 .. Len(frame) : \E j \in 1 .. Len(frame') : frame'[j] = frame[i]
      /\ \E j \in 1 .. Len(frame') : frame'[j] = c
  <2>1. /\ FrameInv' /\ Len(frame') \in Nat /\ frame' # <<>> /\ Last(frame') = c
        /\ \A i \in 1 .. Len(frame) : \E j \in 1 .. Len(frame') : frame'[j] = frame[i]
    BY DeclareKeeps
  <2>2. Len(frame') \in 1 .. Len(frame') /\ frame'[Len(frame')] = c
    BY <2>1 DEF FrameInv, Last
  <2> QED BY <2>1, <2>2
<1>3. \A t \in Slots \ SlotsOf(c) : heap'.held[t] = heap.held[t]
  BY DEF Within
<1> HIDE DEF c
<1>4. \A s \in OuterSlots : s \in Slots \ SlotsOf(c)
  BY <1>1, OuterSlotsAreSlots, SlotsOfObject
<1>5. \A s \in OuterSlots : heap'.held[s] # 0
  BY <1>1, <1>3, <1>4 DEF HoldInv
<1>6. ASSUME NEW s \in Slots, heap'.held[s] # 0, s \notin OuterSlots
      PROVE  \E j \in 1 .. Len(frame') : s \in SlotsOf(frame'[j])
  <2>1. CASE s \in SlotsOf(c)
    BY <1>2, <2>1
  <2>2. CASE s \notin SlotsOf(c)
    <3>1. PICK i \in 1 .. Len(frame) : s \in SlotsOf(frame[i])
      BY <1>1, <1>3, <1>6, <2>2 DEF HoldInv
    <3>2. PICK j \in 1 .. Len(frame') : frame'[j] = frame[i]
      BY <1>2
    <3> QED BY <3>1, <3>2
  <2> QED BY <2>1, <2>2
<1> QED BY <1>5, <1>6 DEF HoldInv

\* Nothing is there yet of an object that comes after all the locals.
LEMMA NextIsEmpty ==
    ASSUME NEW h, NEW f \in Seq(Calls), NEW i \in 1 .. Len(Program), Constructs(Program[i]),
           \A s \in Slots : h.held[s] # 0 =>
               s \in OuterSlots \/ \E j \in 1 .. Len(f) : s \in SlotsOf(f[j]),
           \A j \in 1 .. Len(f) : Constructs(f[j]) /\ Order(f[j].obj) < i
    PROVE  \A s \in SlotsOf(Program[i]) : h.held[s] = 0
<1> DEFINE c == Program[i]
<1> SUFFICES ASSUME NEW s \in SlotsOf(c), h.held[s] # 0
             PROVE  FALSE
  OBVIOUS
<1>1. c \in Calls /\ c.op \in Classes /\ c.obj \in Objects /\ c.obj \notin Outer /\ Order(c.obj) = i
  BY OrderOfMade, CallIsScoped DEF Calls
<1> HIDE DEF c
<1>2. s \in Slots /\ s[1] = c.obj
  BY <1>1, SlotsAreSlots, SlotsOfObject
<1>3. s \notin OuterSlots
  BY <1>1, <1>2, OuterSlotsAreSlots
<1>4. PICK j \in 1 .. Len(f) : s \in SlotsOf(f[j])
  BY <1>2, <1>3
<1>5. f[j] \in Calls /\ Constructs(f[j]) /\ Order(f[j].obj) < i
  OBVIOUS
<1>6. s[1] = f[j].obj
  BY <1>4, <1>5, OrderOfCall, SlotsOfObject
<1> QED BY <1>1, <1>2, <1>5, <1>6

\* Only init_to_rtr makes an address handle.
LEMMA MakingHandles ==
    ASSUME ResInv, phase = "running", at \in 1 .. Len(Program), Constructs(Program[at]),
           NEW r, OutcomeOK(heap, r, Program[at]), heap' = r.heap
    PROVE  \A q \in Qps : heap'.held[<<q, "self", "_ah">>] # 0 =>
              \E j \in 1 .. at - 1 : Program[j].op = "init_to_rtr" /\ Program[j].obj = q
<1> DEFINE c == Program[at]
<1> SUFFICES ASSUME NEW q \in Qps, heap'.held[<<q, "self", "_ah">>] # 0
             PROVE  heap.held[<<q, "self", "_ah">>] # 0
  BY DEF ResInv, RunningInv
<1>1. c.op \in Classes /\ c.obj \in Objects
  BY CallIsScoped
<1>2. q \in Objects /\ <<q, "self", "_ah">> \in Slots
  <2>1. q \in Objects
    BY DEF Qps, CallsOf, Objects
  <2> QED BY <2>1, IsSlot DEF Members, Pointers
<1> HIDE DEF c
<1>3. CASE <<q, "self", "_ah">> \in SlotsOf(c)
  <2>1. c.op = "qp" /\ c.obj = q
    BY <1>1, <1>3, ClassSlots DEF Classes, Context, Pd
  <2> QED BY <2>1 DEF OutcomeOK, c
<1>4. CASE <<q, "self", "_ah">> \notin SlotsOf(c)
  BY <1>2, <1>4 DEF OutcomeOK, Within, c
<1> QED BY <1>3, <1>4

\* The handles of the objects made before stay.
LEMMA MakingKeepsHandles ==
    ASSUME ResInv, phase = "running", at \in 1 .. Len(Program), Constructs(Program[at]),
           Within(heap, heap', SlotsOf(Program[at]))
    PROVE  \A j \in 1 .. at - 1 : Constructs(Program[j]) => heap'.held[Handle(Program[j])] # 0
<1> DEFINE c == Program[at]
<1> SUFFICES ASSUME NEW j \in 1 .. at - 1, Constructs(Program[j])
             PROVE  heap'.held[Handle(Program[j])] # 0
  OBVIOUS
<1>1. j \in 1 .. Len(Program) /\ j # at
  BY ProgramAssumption
<1>2. heap.held[Handle(Program[j])] # 0
  BY DEF ResInv, RunningInv
<1>3. Handle(Program[j]) \in Slots /\ Handle(Program[j])[1] = Program[j].obj
  BY <1>1, CallIsScoped, HandleOfObject
<1>4. Program[j].obj # c.obj
  BY <1>1, OrderOfMade
<1>5. Handle(Program[j]) \notin SlotsOf(c)
  BY <1>3, <1>4, CallIsScoped, SlotsOfObject
<1> QED BY <1>2, <1>3, <1>5 DEF Within

\* A call that makes its object keeps the invariant.
LEMMA MakingSucceeds ==
    ASSUME Disciplined, ResInv, phase = "running", at \in 1 .. Len(Program),
           Constructs(Program[at]), frame' = Declare(Program[at]), CallSucceeds(Program[at])
    PROVE  ResInv'
<1> DEFINE c == Program[at]
<1>1. PICK r \in Outcomes(c, heap) : r.ok /\ heap' = r.heap
  BY DEF CallSucceeds
<1>2. OutcomeOK(heap, r, c)
  BY <1>1, MakingOutcome DEF Disciplined
<1>3. at' = at + 1 /\ tries' = 0 /\ Len(Program) \in Nat /\ Retries \in Nat
  BY ProgramAssumption, ResourcesAssumption DEF CallSucceeds
<1>4. /\ FrameInv' /\ Len(frame') \in Nat
      /\ \A i \in 1 .. Len(frame') : frame'[i] = Program[at] \/ Order(frame'[i].obj) < at
  BY DeclareKeeps
<1>5. Within(heap, heap', SlotsOf(c)) /\ HeapOK(heap') /\ heap'.held[Handle(c)] # 0
  BY <1>1, <1>2 DEF OutcomeOK, Within
<1>6. HoldInv'
  BY <1>5, MakingHolds
<1>7. \A i \in 1 .. Len(frame') : Order(frame'[i].obj) < at'
  <2> SUFFICES ASSUME NEW i \in 1 .. Len(frame') PROVE Order(frame'[i].obj) < at'
    OBVIOUS
  <2>1. Order(c.obj) = at
    BY OrderOfMade
  <2>2. Order(frame'[i].obj) \in 1 .. Len(Program)
    BY <1>4, OrderOfCall DEF FrameInv
  <2> QED BY <1>3, <1>4, <2>1, <2>2
<1>8. RunningInv'
  <2>1. \A j \in 1 .. at' - 1 : Constructs(Program[j]) => heap'.held[Handle(Program[j])] # 0
    <3>1. \A j \in 1 .. at' - 1 : j \in 1 .. at - 1 \/ j = at
      BY <1>3
    <3> QED BY <1>5, <3>1, MakingKeepsHandles
  <2>2. at' <= Len(Program) /\ Constructs(Program[at']) =>
           \A s \in SlotsOf(Program[at']) : heap'.held[s] = 0
    <3> SUFFICES ASSUME at' <= Len(Program), Constructs(Program[at'])
                 PROVE  \A s \in SlotsOf(Program[at']) : heap'.held[s] = 0
      OBVIOUS
    <3>1. at' \in 1 .. Len(Program)
      BY <1>3
    <3>2. frame' \in Seq(Calls) /\ \A i \in 1 .. Len(frame') : Constructs(frame'[i])
      BY <1>4 DEF FrameInv
    <3>3. \A s \in Slots : heap'.held[s] # 0 =>
             s \in OuterSlots \/ \E i \in 1 .. Len(frame') : s \in SlotsOf(frame'[i])
      BY <1>6 DEF HoldInv
    <3> QED BY <1>7, <3>1, <3>2, <3>3, NextIsEmpty
  <2>3. \A q \in Qps : heap'.held[<<q, "self", "_ah">>] # 0 =>
            \E j \in 1 .. at' - 1 : Program[j].op = "init_to_rtr" /\ Program[j].obj = q
    <3>1. \A j \in 1 .. at - 1 : j \in 1 .. at' - 1
      BY <1>3
    <3> QED BY <1>1, <1>2, <3>1, MakingHandles
  <2> QED BY <1>3, <1>7, <2>1, <2>2, <2>3 DEF RunningInv
<1> QED BY <1>3, <1>4, <1>5, <1>6, <1>8 DEF ResInv

\* A call that fails to make its object keeps the invariant.
LEMMA MakingFails ==
    ASSUME Disciplined, ResInv, phase = "running", at \in 1 .. Len(Program),
           Constructs(Program[at]), frame' = Declare(Program[at]), CallFails(Program[at])
    PROVE  ResInv'
<1> DEFINE c == Program[at]
<1>1. PICK r \in Outcomes(c, heap) : ~r.ok /\ heap' = r.heap
  BY DEF CallFails
<1>2. OutcomeOK(heap, r, c)
  BY <1>1, MakingOutcome DEF Disciplined
<1>3. /\ at' = at
      /\ \/ phase' = "failed" /\ tries' = tries
         \/ c.op \in RetryOps /\ tries < Retries /\ tries' = tries + 1
      /\ Len(Program) \in Nat /\ Retries \in Nat /\ tries \in 0 .. Retries
  BY ProgramAssumption, ResourcesAssumption DEF CallFails, ResInv
<1>4. /\ FrameInv' /\ Len(frame') \in Nat
      /\ \A i \in 1 .. Len(frame') : frame'[i] = Program[at] \/ Order(frame'[i].obj) < at
      /\ frame' # <<>> /\ Last(frame') = Program[at]
  BY DeclareKeeps
<1>5. Within(heap, heap', SlotsOf(c)) /\ HeapOK(heap')
  BY <1>1, <1>2 DEF OutcomeOK, Within
<1>6. HoldInv'
  BY <1>5, MakingHolds
<1>7. ASSUME phase' = "running"
      PROVE  RunningInv'
  <2>1. c.op \in SafeToRetry /\ tries' > 0
    BY <1>3, <1>7 DEF Disciplined
  <2>2. \A i \in 1 .. Len(frame') : \/ Order(frame'[i].obj) < at'
                                    \/ Order(frame'[i].obj) = at' /\ tries' > 0
    BY <1>3, <1>4, <2>1, OrderOfMade
  <2>3. \A j \in 1 .. at' - 1 : Constructs(Program[j]) => heap'.held[Handle(Program[j])] # 0
    BY <1>3, <1>5, MakingKeepsHandles
  <2>4. \A s \in SlotsOf(Program[at']) : heap'.held[s] = 0
    BY <1>1, <1>2, <1>3, <2>1 DEF OutcomeOK, Fresh
  <2>5. \A q \in Qps : heap'.held[<<q, "self", "_ah">>] # 0 =>
            \E j \in 1 .. at' - 1 : Program[j].op = "init_to_rtr" /\ Program[j].obj = q
    BY <1>1, <1>2, <1>3, MakingHandles
  <2> QED BY <1>3, <1>4, <2>2, <2>3, <2>4, <2>5 DEF RunningInv
<1> QED BY <1>3, <1>4, <1>5, <1>6, <1>7 DEF ResInv

--------------------------------------------------------------------------------
(***************************************************************************)
(* A call that connects or posts.                                          *)
(***************************************************************************)

\* Nothing changes but that init_to_rtr may make its address handle.
LEMMA CommandOutcome ==
    ASSUME Disciplined, ResInv, phase = "running", at \in 1 .. Len(Program),
           ~Constructs(Program[at]), NEW r \in Outcomes(Program[at], heap)
    PROVE  \/ r.heap = heap
           \/ /\ Program[at].op = "init_to_rtr" /\ HeapOK(r.heap)
              /\ \A t \in Slots : t # <<Program[at].obj, "self", "_ah">> =>
                    r.heap.held[t] = heap.held[t]
<1> DEFINE c == Program[at]
           a == <<c.obj, "self", "_ah">>
           p == Pd(c.on.pd)
<1>1. /\ FrameInv /\ HoldInv /\ RunningInv /\ HeapOK(heap)
      /\ c.op \in Commands /\ c.op \notin Classes
  BY DEF ResInv, Constructs, Commands, Classes
<1>2. r \in CommandOutcomes(c, heap)
  BY <1>1 DEF Outcomes, Classes
<1>3. CASE c.op # "init_to_rtr"
  <2>1. \/ r = Err(heap) \/ r = Ok(heap)
        \/ r \in Modify(heap, c.obj, "RST") \/ r \in Modify(heap, c.obj, "RTR")
    BY <1>1, <1>2, <1>3 DEF CommandOutcomes, Commands
  <2>2. r = Err(heap) \/ r = Ok(heap)
    BY <2>1 DEF Modify
  <2> QED BY <2>2 DEF Ok, Err
<1>4. CASE c.op = "init_to_rtr"
  <2>1. at \in CallsOf({"init_to_rtr"})
    BY <1>4 DEF CallsOf
  <2>2. WellScoped(c, at)
    BY CallIsScoped
  <2>3. Made("qp", c.obj, at) /\ Made("pd", c.on.pd, at)
    BY <1>4, <2>2 DEF WellScoped, Commands
  <2>4. c.obj \in Objects /\ a \in Slots
    <3>1. c.obj \in Objects
      BY CallIsScoped
    <3> QED BY <3>1, IsSlot DEF Members, Pointers
  <2>5. c.obj \in Qps
    <3>1. "qp" \in Classes /\ "qp" # "device"
      BY DEF Classes
    <3>2. PICK j \in 1 .. Len(Program) : Program[j].op = "qp" /\ Program[j].obj = c.obj
      BY <2>3, <3>1, MadeBefore
    <3> HIDE DEF c
    <3> QED BY <3>2 DEF Qps, CallsOf
  <2>6. heap.held[a] = 0
    <3> SUFFICES ASSUME heap.held[a] # 0 PROVE FALSE
      OBVIOUS
    <3>1. PICK j \in 1 .. at - 1 : Program[j].op = "init_to_rtr" /\ Program[j].obj = c.obj
      BY <1>1, <2>5 DEF RunningInv
    <3>2. j \in CallsOf({"init_to_rtr"}) /\ j # at
      BY <3>1, ProgramAssumption DEF CallsOf
    <3> QED BY <2>1, <3>1, <3>2 DEF Disciplined
  <2>7. p \in Slots /\ heap.held[p] # 0 /\ p[1] = c.on.pd
    <3> DEFINE d == New("pd", c.on.pd, c)
    <3>1. d.op = "pd" /\ d.obj = c.on.pd /\ "pd" \in Classes /\ Handle(d) = p
      BY DEF New, Handle, Pd, Classes
    <3> HIDE DEF d, p, c
    <3> QED BY <1>1, <2>3, <3>1, MadeIsThere
  <2>8. Under(p, a)
    <3>1. Order(c.on.pd) < Order(c.obj) /\ Order(c.on.pd) \in Int
      BY <2>1, <2>3, MadeBefore DEF Disciplined, Classes
    <3>2. a[1] = c.obj /\ c.on.pd # c.obj
      BY <3>1
    <3> QED BY <2>7, <3>1, <3>2 DEF Under
  <2>9. \/ r = Err(heap)
        \/ r \in Then(CreateAh(heap, c.obj, c.on), LAMBDA k : Modify(k, c.obj, "INIT"))
    BY <1>2, <1>4 DEF CommandOutcomes
  <2>10. CASE r = Err(heap)
    BY <2>10 DEF Err
  <2>11. CASE r \in Then(CreateAh(heap, c.obj, c.on), LAMBDA k : Modify(k, c.obj, "INIT"))
    <3>1. PICK y \in Create(heap, a, {p}) : r = y \/ r.heap = y.heap
      <4>1. PICK y \in Create(heap, a, {p}) : r = y \/ r \in Modify(y.heap, c.obj, "INIT")
        BY <2>11 DEF CreateAh, Then
      <4>2. r \in Modify(y.heap, c.obj, "INIT") => r = Ok(y.heap) \/ r = Err(y.heap)
        BY DEF Modify
      <4> QED BY <4>1, <4>2 DEF Ok, Err
    <3> HIDE DEF a, p
    <3>2. HeapOK(y.heap) /\ \A t \in Slots : t # a => y.heap.held[t] = heap.held[t]
      BY <1>1, <2>4, <2>6, <2>7, <2>8, CreateOutcomes
    <3> QED BY <1>4, <3>1, <3>2 DEF a
  <2> QED BY <2>9, <2>10, <2>11
<1> QED BY <1>3, <1>4

\* The queue pair of a command is a local, and the handle its.
LEMMA CommandHolds ==
    ASSUME Disciplined, ResInv, phase = "running", at \in 1 .. Len(Program),
           ~Constructs(Program[at]), frame' = Declare(Program[at]),
           NEW r \in Outcomes(Program[at], heap), heap' = r.heap
    PROVE  /\ frame' = frame
           /\ HeapOK(heap') /\ FrameInv' /\ HoldInv'
           /\ \A j \in 1 .. at - 1 :
                 Constructs(Program[j]) => heap'.held[Handle(Program[j])] # 0
           /\ \A q \in Qps : heap'.held[<<q, "self", "_ah">>] # 0 =>
                 \E j \in 1 .. at : Program[j].op = "init_to_rtr" /\ Program[j].obj = q
<1> DEFINE c == Program[at]
           a == <<c.obj, "self", "_ah">>
<1>1. FrameInv /\ HoldInv /\ RunningInv /\ HeapOK(heap) /\ Len(Program) \in Nat
  BY ProgramAssumption DEF ResInv
<1>2. frame' = frame
  BY DEF Declare
<1>3. \A j \in 1 .. at - 1 : j \in 1 .. at
  OBVIOUS
<1>4. CASE heap' = heap
  BY <1>1, <1>2, <1>3, <1>4 DEF FrameInv, HoldInv, RunningInv
<1>5. CASE /\ c.op = "init_to_rtr" /\ HeapOK(heap')
           /\ \A t \in Slots : t # a => heap'.held[t] = heap.held[t]
  <2>1. \A t \in Slots : t[3] # "_ah" => heap'.held[t] = heap.held[t]
    BY <1>5
  <2>2. \A j \in 1 .. at - 1 : Constructs(Program[j]) => heap'.held[Handle(Program[j])] # 0
    <3> SUFFICES ASSUME NEW j \in 1 .. at - 1, Constructs(Program[j])
                 PROVE  heap'.held[Handle(Program[j])] # 0
      OBVIOUS
    <3>1. j \in 1 .. Len(Program)
      BY <1>1
    <3>2. Handle(Program[j]) \in Slots /\ Handle(Program[j])[3] # "_ah"
      BY <3>1, CallIsScoped, HandleOfObject
    <3> QED BY <1>1, <2>1, <3>2 DEF RunningInv
  <2>3. PICK k \in 1 .. Len(frame) : frame[k].op = "qp" /\ frame[k].obj = c.obj
    <3>1. Made("qp", c.obj, at)
      BY <1>5, CallIsScoped DEF WellScoped, Commands
    <3>2. "qp" \in Classes /\ "qp" # "device"
      BY DEF Classes
    <3>3. PICK j \in 1 .. at - 1 : /\ Program[j].op = "qp" /\ Program[j].obj = c.obj
                                   /\ Constructs(Program[j]) /\ j \in 1 .. Len(Program)
      BY <3>1, <3>2, MadeBefore
    <3> DEFINE d == Program[j]
    <3>4. d \in Calls /\ d.op \in Classes /\ d.obj \in Objects /\ d.obj \notin Outer
      BY <3>3, CallIsScoped DEF Calls
    <3>5. Handle(d) \in Slots /\ heap.held[Handle(d)] # 0 /\ Handle(d)[1] = d.obj
      BY <1>1, <3>3, <3>4, HandleOfObject DEF RunningInv
    <3>6. PICK k \in 1 .. Len(frame) : Handle(d)[1] = frame[k].obj
      BY <1>1, <3>4, <3>5, HeldBy
    <3>7. frame[k] = d
      BY <1>1, <3>3, <3>4, <3>5, <3>6, FrameCalls, MadeOnce
    <3> QED BY <3>3, <3>7
  <2>4. a \in SlotsOf(frame[k])
    BY <2>3, ClassSlots
  <2>5. \A s \in OuterSlots : heap'.held[s] # 0
    BY <1>1, <2>1, OuterSlotsAreSlots DEF HoldInv
  <2>6. ASSUME NEW s \in Slots, heap'.held[s] # 0, s \notin OuterSlots
        PROVE  \E i \in 1 .. Len(frame) : s \in SlotsOf(frame[i])
    <3> HIDE DEF a
    <3> QED BY <1>1, <1>5, <2>4, <2>6 DEF HoldInv
  <2>7. HoldInv' /\ FrameInv'
    BY <1>1, <1>2, <2>5, <2>6 DEF HoldInv, FrameInv
  <2>8. ASSUME NEW q \in Qps, heap'.held[<<q, "self", "_ah">>] # 0
        PROVE  \E j \in 1 .. at : Program[j].op = "init_to_rtr" /\ Program[j].obj = q
    <3>1. CASE q = c.obj
      BY <1>5, <3>1
    <3>2. CASE q # c.obj
      <4>1. q \in Objects
        BY DEF Qps, CallsOf, Objects
      <4>2. <<q, "self", "_ah">> \in Slots /\ <<q, "self", "_ah">> # a
        BY <3>2, <4>1, IsSlot DEF Members, Pointers
      <4>3. heap.held[<<q, "self", "_ah">>] # 0
        BY <1>5, <2>8, <4>2
      <4> QED BY <1>1, <1>3, <4>3 DEF RunningInv
    <3> QED BY <3>1, <3>2
  <2> QED BY <1>2, <1>5, <2>2, <2>7, <2>8
<1> QED BY <1>4, <1>5, CommandOutcome

\* A call that only sends a command keeps the invariant, whether it succeeds or not.
LEMMA CommandKeeps ==
    ASSUME Disciplined, ResInv, phase = "running", at \in 1 .. Len(Program),
           ~Constructs(Program[at]), frame' = Declare(Program[at]),
           CallSucceeds(Program[at]) \/ CallFails(Program[at])
    PROVE  ResInv'
<1> DEFINE c == Program[at]
<1>1. PICK r \in Outcomes(c, heap) : heap' = r.heap
  BY DEF CallSucceeds, CallFails
<1>2. /\ frame' = frame /\ HeapOK(heap') /\ FrameInv' /\ HoldInv'
      /\ \A j \in 1 .. at - 1 : Constructs(Program[j]) => heap'.held[Handle(Program[j])] # 0
      /\ \A q \in Qps : heap'.held[<<q, "self", "_ah">>] # 0 =>
            \E j \in 1 .. at : Program[j].op = "init_to_rtr" /\ Program[j].obj = q
  BY <1>1, CommandHolds
<1>3. /\ RunningInv /\ FrameInv /\ Len(Program) \in Nat /\ Retries \in Nat /\ tries \in 0 .. Retries
      /\ \A i \in 1 .. Len(frame) : Order(frame[i].obj) \in 1 .. Len(Program) /\ frame[i] \in Calls
  BY ProgramAssumption, ResourcesAssumption, FrameCalls DEF ResInv
<1>4. \A i \in 1 .. Len(frame) : Order(frame[i].obj) < at
  <2> SUFFICES ASSUME NEW i \in 1 .. Len(frame) PROVE Order(frame[i].obj) # at
    BY <1>3 DEF RunningInv
  <2> QED BY <1>3, FrameCalls, OrderOfCall
<1>5. CASE CallSucceeds(c)
  <2>1. at' = at + 1 /\ tries' = 0
    BY <1>5 DEF CallSucceeds
  <2>2. \A i \in 1 .. Len(frame') : Order(frame'[i].obj) < at'
    BY <1>2, <1>3, <1>4, <2>1
  <2>3. \A j \in 1 .. at' - 1 : Constructs(Program[j]) => heap'.held[Handle(Program[j])] # 0
    <3>1. \A j \in 1 .. at' - 1 : j \in 1 .. at - 1 \/ j = at
      BY <2>1
    <3> QED BY <1>2, <3>1
  <2>4. at' <= Len(Program) /\ Constructs(Program[at']) =>
           \A s \in SlotsOf(Program[at']) : heap'.held[s] = 0
    <3> SUFFICES ASSUME at' <= Len(Program), Constructs(Program[at'])
                 PROVE  \A s \in SlotsOf(Program[at']) : heap'.held[s] = 0
      OBVIOUS
    <3>1. at' \in 1 .. Len(Program)
      BY <1>3, <2>1
    <3>2. frame' \in Seq(Calls) /\ \A i \in 1 .. Len(frame') : Constructs(frame'[i])
      BY <1>2 DEF FrameInv
    <3>3. \A s \in Slots : heap'.held[s] # 0 =>
             s \in OuterSlots \/ \E i \in 1 .. Len(frame') : s \in SlotsOf(frame'[i])
      BY <1>2 DEF HoldInv
    <3> QED BY <2>2, <3>1, <3>2, <3>3, NextIsEmpty
  <2>5. at' - 1 = at
    BY <2>1
  <2>6. RunningInv'
    BY <1>2, <2>1, <2>2, <2>3, <2>4, <2>5 DEF RunningInv
  <2> QED BY <1>2, <1>3, <2>1, <2>6 DEF ResInv
<1>6. CASE CallFails(c)
  <2>1. /\ at' = at
        /\ \/ phase' = "failed" /\ tries' = tries
           \/ c.op \in RetryOps /\ tries < Retries /\ phase' = "running" /\ tries' = tries + 1
    BY <1>6 DEF CallFails
  <2>2. ASSUME phase' = "running"
        PROVE  RunningInv'
    <3>1. c.op # "init_to_rtr" /\ phase' # "failed"
      BY <2>1, <2>2 DEF Disciplined, SafeToRetry
    <3>2. heap' = heap
      BY <1>1, <3>1, CommandOutcome
    <3> QED BY <1>2, <1>3, <1>4, <2>1, <3>2 DEF RunningInv
  <2> QED BY <1>2, <1>3, <2>1, <2>2 DEF ResInv
<1> QED BY <1>5, <1>6

--------------------------------------------------------------------------------
(***************************************************************************)
(* The program's steps.                                                    *)
(***************************************************************************)

\* So does every call of the program.
LEMMA CallKeeps ==
    ASSUME Disciplined, ResInv, Call
    PROVE  ResInv'
<1>1. /\ phase = "running" /\ at \in 1 .. Len(Program) /\ frame' = Declare(Program[at])
      /\ CallSucceeds(Program[at]) \/ CallFails(Program[at])
  BY ProgramAssumption DEF Call, ResInv
<1>2. CASE Constructs(Program[at])
  BY <1>1, <1>2, MakingSucceeds, MakingFails
<1>3. CASE ~Constructs(Program[at])
  BY <1>1, <1>3, CommandKeeps
<1> QED BY <1>2, <1>3

\* Coming to the end of the program keeps the invariant.
LEMMA FinishKeeps ==
    ASSUME ResInv, Finish
    PROVE  ResInv'
BY DEF ResInv, Finish, FrameInv, HoldInv

\* What is left of a sequence without its last element.
LEMMA FrontOf ==
    ASSUME NEW S, NEW f \in Seq(S), f # <<>>
    PROVE  /\ Len(f) \in Nat \ {0} /\ Len(f) \in 1 .. Len(f) /\ Last(f) = f[Len(f)]
           /\ Len(Front(f)) = Len(f) - 1 /\ Front(f) \in Seq(S)
           /\ \A i \in 1 .. Len(f) - 1 : Front(f)[i] = f[i] /\ i \in 1 .. Len(f)
<1>1. Len(f) \in Nat \ {0} /\ Len(f) \in 1 .. Len(f)
  OBVIOUS
<1>2. \A i \in 1 .. Len(f) - 1 : i \in 1 .. Len(f) /\ f[i] \in S
  BY <1>1
<1>3. Front(f) = [i \in 1 .. Len(f) - 1 |-> f[i]]
  BY <1>1, <1>2 DEF Front
<1>4. Len(Front(f)) = Len(f) - 1 /\ Front(f) \in Seq(S)
  BY <1>1, <1>2, <1>3
<1> QED BY <1>1, <1>2, <1>3, <1>4 DEF Last

\* The last local is on top of all the others.
LEMMA DestructKeeps ==
    ASSUME ResInv, Destruct
    PROVE  ResInv'
<1> DEFINE c == Last(frame)
           n == Len(frame)
<1>1. /\ FrameInv /\ HoldInv /\ HeapOK(heap) /\ frame \in Seq(Calls) /\ frame # <<>>
      /\ heap' = Destructor(c, heap) /\ frame' = Front(frame)
      /\ phase' # "running" /\ at' = at /\ tries' = tries
  BY DEF ResInv, Destruct, FrameInv
<1>2. /\ n \in Nat \ {0} /\ n \in 1 .. n /\ c = frame[n]
      /\ Len(frame') = n - 1 /\ frame' \in Seq(Calls)
      /\ \A i \in 1 .. n - 1 : frame'[i] = frame[i] /\ i \in 1 .. n
  BY <1>1, FrontOf
<1>3. /\ c \in Calls /\ Constructs(c) /\ c.op \in Classes /\ c.obj \in Objects /\ c.obj \notin Outer
      /\ Order(c.obj) \in Int
  BY <1>1, <1>2, FrameCalls
<1> HIDE DEF c, n
<1>4. \A i \in 1 .. Len(frame) : Order(frame[i].obj) < Order(c.obj) \/ frame[i] = c
  BY <1>1, <1>2 DEF FrameInv, n
<1>5. Top(heap, SlotsOf(c))
  BY <1>1, <1>3, <1>4, TopOfFrame
<1>6. Emptied(heap, heap', SlotsOf(c))
  BY <1>1, <1>3, <1>5, DestructorEmpties
<1>7. FrameInv'
  <2>1. /\ \A i \in 1 .. n : Constructs(frame[i])
        /\ \A i, j \in 1 .. n : i < j => Order(frame[i].obj) < Order(frame[j].obj)
    BY <1>1 DEF FrameInv, n
  <2>2. 1 .. Len(frame') = 1 .. n - 1
    BY <1>2
  <2> QED BY <1>2, <2>1, <2>2 DEF FrameInv
<1>8. \A s \in OuterSlots : heap'.held[s] # 0
  <2>1. \A s \in OuterSlots : s \in Slots \ SlotsOf(c)
    BY <1>3, OuterSlotsAreSlots, SlotsOfObject
  <2> QED BY <1>1, <1>6, <2>1 DEF HoldInv, Emptied, Within
<1>9. ASSUME NEW s \in Slots, heap'.held[s] # 0, s \notin OuterSlots
      PROVE  \E i \in 1 .. Len(frame') : s \in SlotsOf(frame'[i])
  <2>1. s \notin SlotsOf(c) /\ heap.held[s] # 0
    BY <1>6, <1>9 DEF Emptied, Within
  <2>2. PICK i \in 1 .. n : s \in SlotsOf(frame[i])
    BY <1>1, <1>9, <2>1 DEF HoldInv, n
  <2>3. i \in 1 .. n - 1
    BY <1>2, <2>1, <2>2
  <2> QED BY <1>2, <2>2, <2>3
<1>10. HoldInv'
  BY <1>8, <1>9 DEF HoldInv
<1>11. HeapOK(heap')
  BY <1>6 DEF Emptied, Within
<1> QED BY <1>1, <1>7, <1>10, <1>11 DEF ResInv

--------------------------------------------------------------------------------
(***************************************************************************)
(* The start.                                                              *)
(***************************************************************************)

\* The caller brings finitely many pointers.
LEMMA OuterSlotsFinite ==
    IsFiniteSet(OuterSlots)
<1> DEFINE C == {Context(o) : o \in Outer}
           L == {<<o, "self", "_device_list">> : o \in Outer}
           f == [o \in Outer |-> Context(o)]
           g == [o \in Outer |-> <<o, "self", "_device_list">>]
<1>1. IsFiniteSet(Outer)
  BY ResourcesAssumption
<1>2. f \in Surjection(Outer, C) /\ g \in Surjection(Outer, L)
  BY DEF Surjection
<1> HIDE DEF C, L, f, g
<1>3. IsFiniteSet(C) /\ IsFiniteSet(L)
  BY <1>1, <1>2, FS_Surjection
<1>4. IsFiniteSet(C \cup L)
  BY <1>3, FS_Union
<1> QED BY <1>4 DEF OuterSlots, C, L

\* The given devices hold a list and a context each, which use nothing.
LEMMA OuterHeapOK ==
    /\ HeapOK(OuterHeap)
    /\ \A s \in Slots : OuterHeap.held[s] # 0 <=> s \in OuterSlots
<1> DEFINE n == Cardinality(OuterSlots)
           number == CHOOSE f \in Bijection(OuterSlots, 1 .. n) : TRUE
           h == OuterHeap
<1>1. n \in Nat /\ ExistsBijection(1 .. n, OuterSlots)
  BY OuterSlotsFinite, FS_CardinalityType
<1>2. Bijection(OuterSlots, 1 .. n) # {}
  BY <1>1, Fun_ExistsBijSymmetric DEF ExistsBijection
<1>3. number \in Bijection(OuterSlots, 1 .. n)
  BY <1>2
<1> HIDE DEF n, number
<1>4. /\ number \in [OuterSlots -> 1 .. n]
      /\ \A s, t \in OuterSlots : number[s] = number[t] => s = t
      /\ \A k \in 1 .. n : \E s \in OuterSlots : number[s] = k
  BY <1>3 DEF Bijection, Injection, Surjection, IsInjective
<1>5. h = [held |-> [s \in Slots |-> IF s \in OuterSlots THEN number[s] ELSE 0],
           needs |-> [k \in 1 .. n |-> {}], live |-> 1 .. n, misused |-> {}]
  BY DEF OuterHeap, n, number
<1> HIDE DEF h
<1>6. /\ h.held = [s \in Slots |-> IF s \in OuterSlots THEN number[s] ELSE 0]
      /\ h.needs = [k \in 1 .. n |-> {}] /\ h.live = 1 .. n /\ h.misused = {}
  BY <1>5
<1>7. OuterSlots \subseteq Slots
  BY OuterSlotsAreSlots
<1>8. /\ \A s \in OuterSlots : h.held[s] = number[s] /\ number[s] \in 1 .. n
      /\ \A s \in Slots : s \notin OuterSlots => h.held[s] = 0
  BY <1>4, <1>6, <1>7
<1>9. h.needs \in Seq(SUBSET Nat) /\ Len(h.needs) = n /\ \A k \in 1 .. n : h.needs[k] = {}
  <2>1. \A k \in 1 .. n : {} \in SUBSET Nat
    OBVIOUS
  <2> QED BY <1>1, <1>6, <2>1
<1>10. h \in HeapType
  <2>1. h.held \in [Slots -> Nat]
    BY <1>1, <1>4, <1>6
  <2>2. h.live \in SUBSET Nat /\ h.misused \in SUBSET Nat
    BY <1>1, <1>6
  <2>3. h = [held |-> h.held, needs |-> h.needs, live |-> h.live, misused |-> h.misused]
    BY <1>5
  <2> QED BY <1>9, <2>1, <2>2, <2>3 DEF HeapType
<1>11. \A s \in Slots : h.held[s] # 0 => s \in OuterSlots /\ h.held[s] \in 1 .. n
  BY <1>8
<1>12. \A s \in OuterSlots : h.held[s] # 0
  BY <1>1, <1>8
<1>13. HeapOK(h)
  <2>1. \A s, t \in Slots : h.held[s] # 0 /\ h.held[s] = h.held[t] => s = t
    BY <1>4, <1>8, <1>11
  <2>2. \A k \in h.live : \E s \in Slots : h.held[s] = k
    BY <1>4, <1>6, <1>7, <1>8
  <2> QED BY <1>6, <1>9, <1>10, <1>11, <2>1, <2>2 DEF HeapOK
<1> QED BY <1>11, <1>12, <1>13 DEF h

\* Before the first object is made, only the given devices hold anything.
LEMMA NothingMade ==
    ASSUME NEW h, \A s \in Slots : h.held[s] # 0 => s \in OuterSlots
    PROVE  /\ 1 <= Len(Program) /\ Constructs(Program[1]) =>
                \A s \in SlotsOf(Program[1]) : h.held[s] = 0
           /\ \A q \in Qps : h.held[<<q, "self", "_ah">>] = 0
<1>1. ASSUME 1 <= Len(Program), Constructs(Program[1]), NEW s \in SlotsOf(Program[1])
      PROVE  h.held[s] = 0
  <2>1. 1 \in 1 .. Len(Program)
    BY <1>1, ProgramAssumption
  <2>2. Program[1].op \in Classes /\ Program[1].obj \in Objects /\ Program[1].obj \notin Outer
    BY <1>1, <2>1, CallIsScoped
  <2>3. s \in Slots /\ s \notin OuterSlots
    BY <1>1, <2>2, SlotsAreSlots, SlotsOfObject, OuterSlotsAreSlots
  <2> QED BY <2>3
<1>2. ASSUME NEW q \in Qps
      PROVE  h.held[<<q, "self", "_ah">>] = 0
  <2>1. q \in Objects
    BY DEF Qps, CallsOf, Objects
  <2>2. <<q, "self", "_ah">> \in Slots
    BY <2>1, IsSlot DEF Members, Pointers
  <2>3. <<q, "self", "_ah">> \notin OuterSlots
    BY OuterSlotsAreSlots
  <2> QED BY <2>2, <2>3
<1> QED BY <1>1, <1>2

\* Before the first call only the caller's pointers are held.
LEMMA InitResInv ==
    ASSUME heap = OuterHeap, at = 1, tries = 0, frame = <<>>
    PROVE  ResInv
<1>1. /\ HeapOK(heap)
      /\ \A s \in Slots : heap.held[s] # 0 <=> s \in OuterSlots
  BY OuterHeapOK
<1>2. FrameInv
  BY DEF FrameInv
<1>3. HoldInv
  BY <1>1, OuterSlotsAreSlots DEF HoldInv
<1>4. RunningInv
  BY <1>1, NothingMade DEF RunningInv
<1> QED BY <1>1, <1>2, <1>3, <1>4, ProgramAssumption, ResourcesAssumption DEF ResInv

\* Every step keeps the invariant.
LEMMA StepResInv ==
    ASSUME Disciplined, ResInv, [ResNext]_resVars
    PROVE  ResInv'
<1>1. CASE UNCHANGED resVars
  BY <1>1 DEF resVars, ResInv, FrameInv, HoldInv, RunningInv
<1> QED BY <1>1, CallKeeps, FinishKeeps, DestructKeeps DEF ResNext

\* So it holds throughout every run of a disciplined program.
LEMMA ResInvHolds ==
    Disciplined => (ResSpec => []ResInv)
<1> SUFFICES ASSUME Disciplined PROVE ResSpec => []ResInv
  OBVIOUS
<1>1. ResInit => ResInv
  BY InitResInv DEF ResInit
<1>2. ResInv /\ [ResNext]_resVars => ResInv'
  BY StepResInv
<1> QED BY <1>1, <1>2, PTL DEF ResSpec

--------------------------------------------------------------------------------
(***************************************************************************)
(* The queue pairs in the device, whatever becomes of the memory.          *)
(***************************************************************************)

Position == at \in 1 .. Len(Program) + 1 /\ tries \in 0 .. Retries
PhaseInv == phase \in {"running", "failed", "finished"}

\* The position, the phase and the states agree at the start.
LEMMA StateStart ==
    ASSUME ResInit
    PROVE  Position /\ PhaseInv /\ StateInv
BY ProgramAssumption, ResourcesAssumption DEF ResInit, Position, PhaseInv, StateInv, ReadyAt, QpStates

\* A transition sets its queue pair's state; a post leaves it.
LEMMA SuccessKeepsState ==
    ASSUME Position, StateInv, at <= Len(Program), CallSucceeds(Program[at])
    PROVE  StateInv'
<1> DEFINE c == Program[at]
<1>1. at \in 1 .. Len(Program) /\ at' = at + 1
  BY ProgramAssumption DEF Position, CallSucceeds
<1>2. qpState' = IF c.obj \in Qps THEN [qpState EXCEPT ![c.obj] = StateAfter(c)] ELSE qpState
  BY DEF CallSucceeds
<1>3. c.obj \in Qps => StateAfter(c) \in QpStates
  BY DEF StateInv, StateAfter, QpStates
<1>4. qpState' \in [Qps -> QpStates]
  BY <1>2, <1>3 DEF StateInv
<1>5. ASSUME NEW q \in Qps, ReadyAt(q, at')
      PROVE  qpState'[q] = "RTS"
  <2>1. PICK j \in 1 .. at : /\ Program[j].op = "rtr_to_rts" /\ Program[j].obj = q
                             /\ \A k \in j + 1 .. at : Program[k].obj = q => Program[k].op = "post"
    <3>1. at' - 1 = at
      BY <1>1
    <3> QED BY <1>5, <3>1 DEF ReadyAt
  <2>2. CASE j = at
    BY <1>2, <2>1, <2>2 DEF StateInv, StateAfter
  <2>3. CASE j # at
    <3>1. ReadyAt(q, at)
      <4>1. j \in 1 .. at - 1 /\ \A k \in j + 1 .. at - 1 : k \in j + 1 .. at
        BY <1>1, <2>3
      <4> QED BY <2>1, <4>1 DEF ReadyAt
    <3>2. qpState[q] = "RTS"
      BY <3>1 DEF StateInv
    <3>3. at \in j + 1 .. at
      BY <1>1, <2>3
    <3>4. c.obj = q => StateAfter(c) = qpState[q]
      BY <2>1, <3>3 DEF StateAfter
    <3> QED BY <1>2, <3>2, <3>4 DEF StateInv
  <2> QED BY <2>2, <2>3
<1> QED BY <1>4, <1>5 DEF StateInv

\* Every step keeps them in agreement.
LEMMA StateKeeps ==
    ASSUME Position, PhaseInv, StateInv, [ResNext]_resVars
    PROVE  (Position /\ PhaseInv /\ StateInv)'
<1>0. Len(Program) \in Nat /\ Retries \in Nat
  BY ProgramAssumption, ResourcesAssumption
<1>1. CASE Call
  <2>1. CASE CallSucceeds(Program[at])
    <3>1. at <= Len(Program) /\ at' = at + 1 /\ tries' = 0 /\ phase' = phase
      BY <1>1, <2>1 DEF Call, CallSucceeds
    <3>2. StateInv'
      BY <2>1, <3>1, SuccessKeepsState
    <3> QED BY <1>0, <3>1, <3>2 DEF Position, PhaseInv
  <2>2. CASE CallFails(Program[at])
    BY <1>0, <1>1, <2>2 DEF Call, CallFails, Position, PhaseInv, StateInv
  <2> QED BY <1>1, <2>1, <2>2 DEF Call
<1>2. CASE Finish
  BY <1>2 DEF Finish, Position, PhaseInv, StateInv
<1>3. CASE Destruct
  BY <1>3 DEF Destruct, Position, PhaseInv, StateInv
<1>4. CASE UNCHANGED resVars
  BY <1>4 DEF resVars, Position, PhaseInv, StateInv
<1> QED BY <1>1, <1>2, <1>3, <1>4 DEF ResNext

\* So they agree throughout every run.
LEMMA StateHolds ==
    ResSpec => [](Position /\ PhaseInv /\ StateInv)
<1>1. ResInit => Position /\ PhaseInv /\ StateInv
  BY StateStart
<1>2. Position /\ PhaseInv /\ StateInv /\ [ResNext]_resVars => (Position /\ PhaseInv /\ StateInv)'
  BY StateKeeps
<1> QED BY <1>1, <1>2, PTL DEF ResSpec

--------------------------------------------------------------------------------
(***************************************************************************)
(* Theorems about a program.                                               *)
(***************************************************************************)

\* What the program has given back once its locals are gone.
LEMMA OnlyOuterLeft ==
    ASSUME ResInv
    PROVE  AllReleased
<1> SUFFICES ASSUME frame = <<>>
             PROVE  heap.live = {heap.held[s] : s \in Outer \X Members \X Pointers} \ {0}
  BY DEF AllReleased, Returned
<1>1. HeapOK(heap) /\ HoldInv /\ heap.live \subseteq 1 .. Len(heap.needs) /\ Len(heap.needs) \in Nat
  BY DEF ResInv, HeapOK, HeapType
<1>2. \A s \in Slots : heap.held[s] # 0 => s \in Outer \X Members \X Pointers
  BY <1>1, OuterSlotsAreSlots DEF HoldInv
<1>3. Outer \X Members \X Pointers \subseteq Slots
  BY DEF Slots, Objects
<1>4. \A l \in heap.live : l # 0 /\ \E s \in Slots : heap.held[s] = l
  BY <1>1 DEF HeapOK
<1>5. \A s \in Slots : heap.held[s] # 0 => heap.held[s] \in heap.live
  BY <1>1 DEF HeapOK
<1>6. heap.live \subseteq {heap.held[s] : s \in Outer \X Members \X Pointers} \ {0}
  BY <1>2, <1>4
<1>7. {heap.held[s] : s \in Outer \X Members \X Pointers} \ {0} \subseteq heap.live
  BY <1>3, <1>5
<1> QED BY <1>6, <1>7

\* No resource is used once it is gone, and none is given back while the device
\* or the driver uses it, whichever call fails and however long the program is.
THEOREM NeverMisused ==
    Disciplined => (ResSpec => []NothingMisused)
<1> SUFFICES ASSUME Disciplined PROVE ResSpec => []NothingMisused
  OBVIOUS
<1>1. ResInv => NothingMisused
  BY DEF ResInv, HeapOK, NothingMisused
<1> QED BY <1>1, ResInvHolds, PTL

\* When the program has returned, by whichever failure, what is left are the
\* resources of the devices it was given.
THEOREM ReturnsWithNothing ==
    Disciplined => (ResSpec => []AllReleased)
<1> SUFFICES ASSUME Disciplined PROVE ResSpec => []AllReleased
  OBVIOUS
<1>1. ResInv => AllReleased
  BY OnlyOuterLeft
<1> QED BY <1>1, ResInvHolds, PTL

\* The calls that connect both queue pairs come before every post.
ConnectsFirst == \A i \in CallsOf({"post"}) : \A q \in Qps : ReadyAt(q, i)

\* A program written to connect its queue pairs first never posts on one that is
\* not ready to send: a transition that fails is not passed over.
THEOREM PostsAreOnConnected ==
    ConnectsFirst => (ResSpec => []PostsOnlyConnected)
<1> SUFFICES ASSUME ConnectsFirst PROVE ResSpec => []PostsOnlyConnected
  OBVIOUS
<1>1. StateInv => PostsOnlyConnected
  BY DEF StateInv, PostsOnlyConnected, ConnectsFirst
<1> QED BY <1>1, StateHolds, PTL

\* Types; a slot never holds a number nobody handed out.
THEOREM ResTypesHold ==
    Disciplined => (ResSpec => []ResTypeOK)
<1> SUFFICES ASSUME Disciplined PROVE ResSpec => []ResTypeOK
  OBVIOUS
<1>1. ASSUME ResInv, PhaseInv, StateInv
      PROVE  ResTypeOK
  <2>1. /\ heap \in HeapType /\ heap.misused = {} /\ Len(heap.needs) \in Nat
        /\ heap.live \subseteq 1 .. Len(heap.needs)
        /\ \A k \in 1 .. Len(heap.needs) : heap.needs[k] \subseteq 1 .. Len(heap.needs)
        /\ \A s \in Slots : heap.held[s] # 0 => heap.held[s] \in heap.live
    BY <1>1 DEF ResInv, HeapOK, HeapType
  <2>2. heap.needs \in Seq(SUBSET (0 .. Len(heap.needs)))
    <3>1. heap.needs \in Seq(SUBSET Nat)
      BY <2>1 DEF HeapType
    <3>2. \A k \in 1 .. Len(heap.needs) : heap.needs[k] \in SUBSET (0 .. Len(heap.needs))
      BY <2>1
    <3> QED BY <3>1, <3>2
  <2>3. heap.held \in [Slots -> 0 .. Len(heap.needs)]
    BY <2>1 DEF HeapType
  <2>4. \A i \in 1 .. Len(frame) : frame[i].obj \in Objects
    BY <1>1, FrameCalls DEF ResInv
  <2> QED BY <1>1, <2>1, <2>2, <2>3, <2>4 DEF ResTypeOK, ResInv, PhaseInv, StateInv
<1> QED BY <1>1, ResInvHolds, StateHolds, PTL

--------------------------------------------------------------------------------
(***************************************************************************)
(* Theorems about an endpoint: create_resources run again and again.       *)
(***************************************************************************)

epAll == <<resVars, epVars>>

\* Every step of the endpoint keeps the invariant of the resources.
LEMMA StepEpResInv ==
    ASSUME Disciplined, ResInv, [EpNext]_epAll
    PROVE  ResInv'
<1>1. CASE CreateResources
  BY <1>1, CallKeeps DEF CreateResources
<1>2. CASE StoreResources
  BY <1>2, FinishKeeps DEF StoreResources
<1>3. CASE ReturnFromCreate
  BY <1>3, DestructKeeps DEF ReturnFromCreate
<1>4. CASE EpInitialize
  <2>1. /\ frame = <<>> /\ frame' = frame /\ heap' = heap /\ at' = 1 /\ tries' = 0
        /\ HeapOK(heap) /\ HoldInv /\ FrameInv
    BY <1>4 DEF EpInitialize, Returned, ResInv
  <2>2. HoldInv' /\ FrameInv' /\ HeapOK(heap')
    BY <2>1 DEF HoldInv, FrameInv
  <2>3. \A s \in Slots : heap'.held[s] # 0 => s \in OuterSlots
    BY <2>1 DEF HoldInv
  <2>4. RunningInv'
    BY <2>1, <2>3, NothingMade DEF RunningInv
  <2> QED BY <2>1, <2>2, <2>4, ProgramAssumption, ResourcesAssumption DEF ResInv
<1>5. CASE EpDestroy
  BY <1>5 DEF EpDestroy, Returned, ResInv, FrameInv, HoldInv
<1>6. CASE UNCHANGED epAll
  BY <1>6 DEF epAll, resVars, ResInv, FrameInv, HoldInv, RunningInv
<1> QED BY <1>1, <1>2, <1>3, <1>4, <1>5, <1>6 DEF EpNext

\* However often initialize() fails, the endpoint's owner is left with the device
\* it brought, and nothing is misused.
THEOREM EndpointReleasesAll ==
    Disciplined => (EpSpec => [](AllReleased /\ NothingMisused))
<1> SUFFICES ASSUME Disciplined PROVE EpSpec => [](AllReleased /\ NothingMisused)
  OBVIOUS
<1>1. EpInit => ResInv
  BY InitResInv DEF EpInit
<1>2. ResInv /\ [EpNext]_epAll => ResInv'
  BY StepEpResInv
<1>3. ResInv => AllReleased /\ NothingMisused
  BY OnlyOuterLeft DEF ResInv, HeapOK, NothingMisused
<1> QED BY <1>1, <1>2, <1>3, PTL DEF EpSpec, epAll

\* create_resources makes something.
MakesSomething == \E i \in 1 .. Len(Program) : Constructs(Program[i])

\* While the endpoint counts as disconnected it keeps pointers only as long as
\* create_resources is on its way out with a success: some local is still there.
EpInv ==
    /\ Position
    /\ frame \in Seq(Calls)
    /\ epStatus = "disconnected" /\ epHolds # {} => phase = "finished" /\ frame # <<>>
    /\ phase = "running" /\ (\E j \in 1 .. at - 1 : Constructs(Program[j])) => frame # <<>>
    /\ phase = "running" /\ at <= Len(Program) /\ Constructs(Program[at]) /\ tries > 0 =>
         frame # <<>>

\* A call leaves a local once an object has been declared.
LEMMA CallEpInv ==
    ASSUME EpInv, CreateResources
    PROVE  EpInv'
<1> DEFINE c == Program[at]
<1>1. /\ Len(Program) \in Nat /\ Retries \in Nat /\ at \in 1 .. Len(Program) /\ tries \in 0 .. Retries
      /\ phase = "running" /\ frame' = Declare(c) /\ frame \in Seq(Calls)
      /\ UNCHANGED <<epHolds, epStatus>>
  BY ProgramAssumption, ResourcesAssumption DEF CreateResources, Call, EpInv, Position, epVars
<1>2. epStatus = "disconnected" => epHolds = {}
  BY <1>1 DEF EpInv
<1>3. c \in Calls
  BY <1>1 DEF Calls
<1> HIDE DEF c
<1>4. frame' \in Seq(Calls)
  BY <1>1, <1>3 DEF Declare
<1>5. frame # <<>> \/ Constructs(c) => frame' # <<>>
  <2>1. frame # <<>> \/ tries = 0 \/ ~Constructs(c)
    BY <1>1 DEF EpInv, c
  <2> QED BY <1>1, <1>3, <2>1 DEF Declare
<1>6. CASE CallSucceeds(c)
  <2>1. at' = at + 1 /\ tries' = 0
    BY <1>6 DEF CallSucceeds
  <2>2. (\E j \in 1 .. at : Constructs(Program[j])) => frame' # <<>>
    <3>1. \A j \in 1 .. at : j \in 1 .. at - 1 \/ j = at
      BY <1>1
    <3> QED BY <1>1, <1>5, <3>1 DEF EpInv, c
  <2>3. at' - 1 = at
    BY <1>1, <2>1
  <2> QED BY <1>1, <1>2, <1>4, <2>1, <2>2, <2>3 DEF EpInv, Position
<1>7. CASE CallFails(c)
  <2>1. at' = at /\ tries' \in 0 .. Retries
    BY <1>1, <1>7 DEF CallFails
  <2> QED BY <1>1, <1>2, <1>4, <1>5, <2>1 DEF EpInv, Position, c
<1> QED BY <1>6, <1>7 DEF CreateResources, Call, c

\* Every step of the endpoint keeps the endpoint's own invariant.
LEMMA StepEpInv ==
    ASSUME MakesSomething, EpInv, [EpNext]_epAll
    PROVE  EpInv'
<1>0. Len(Program) \in Nat /\ Retries \in Nat
  BY ProgramAssumption, ResourcesAssumption
<1>1. CASE CreateResources
  BY <1>1, CallEpInv
<1>2. CASE StoreResources
  <2>1. /\ phase = "running" /\ phase' = "finished" /\ at > Len(Program)
        /\ UNCHANGED <<heap, at, tries, frame>>
    BY <1>2 DEF StoreResources, Finish
  <2>2. \E j \in 1 .. at - 1 : Constructs(Program[j])
    BY <1>0, <2>1 DEF MakesSomething, EpInv, Position
  <2> QED BY <2>1, <2>2 DEF EpInv, Position
<1>3. CASE ReturnFromCreate
  <2>1. /\ phase \in {"failed", "finished"} /\ frame # <<>> /\ frame' = Front(frame)
        /\ UNCHANGED <<at, tries, phase, epHolds>>
        /\ epStatus' = IF phase = "finished" /\ frame' = <<>> THEN "initializing" ELSE epStatus
    BY <1>3 DEF ReturnFromCreate, Destruct
  <2>2. frame' \in Seq(Calls)
    BY <2>1, FrontOf DEF EpInv
  <2> QED BY <2>1, <2>2 DEF EpInv, Position
<1>4. CASE EpInitialize
  BY <1>0, <1>4 DEF EpInitialize, Returned, EpInv, Position
<1>5. CASE EpDestroy
  BY <1>5 DEF EpDestroy, Returned, EpInv, Position
<1>6. CASE UNCHANGED epAll
  BY <1>6 DEF epAll, resVars, epVars, EpInv, Position
<1> QED BY <1>1, <1>2, <1>3, <1>4, <1>5, <1>6 DEF EpNext

\* However initialize() fails, and however often, destroy() finds no pointer to
\* follow; this holds whether or not the program is disciplined.
THEOREM FailureLeavesNothingToDestroy ==
    MakesSomething => (EpSpec => []FailedEndpointIsEmpty)
<1> SUFFICES ASSUME MakesSomething PROVE EpSpec => []FailedEndpointIsEmpty
  OBVIOUS
<1>1. EpInit => EpInv
  BY ProgramAssumption, ResourcesAssumption DEF EpInit, EpInv, Position
<1>2. EpInv /\ [EpNext]_epAll => EpInv'
  BY StepEpInv
<1>3. EpInv => FailedEndpointIsEmpty
  BY DEF EpInv, FailedEndpointIsEmpty, Returned
<1> QED BY <1>1, <1>2, <1>3, PTL DEF EpSpec, epAll
================================================================================
