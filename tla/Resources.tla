------------------------------- MODULE Resources -------------------------------
(***************************************************************************)
(* The resource objects of rdma_objects.cpp: what each initialize()        *)
(* acquires from the verbs library, what it leaves behind when one of its  *)
(* calls fails, and in which order destroy() and the destructors give it   *)
(* back.  A program is a sequence of initialize() calls, one per local     *)
(* object, and of the calls that connect two queue pairs; it returns at    *)
(* the first failure, or calls the failed method again, and its locals are *)
(* destroyed in the reverse order of their declaration.                    *)
(*                                                                         *)
(* Acquired resources are numbered.  A slot <<object, member, pointer>> is *)
(* a pointer some object keeps; it holds a resource number, 0 is nullptr.  *)
(***************************************************************************)
EXTENDS Integers, Sequences, SequencesExt, FiniteSets

CONSTANTS
    Program,        \* the calls: a sequence of records made by the operators below
    Outer,          \* devices the program was given, initialised already
    RetryOps,       \* the methods that are called again after a failure
    Retries,        \* how often
    ConvertFails    \* mlx5dv_init_obj may fail on a protection domain just allocated

ASSUME ResourcesAssumption ==
    /\ IsFiniteSet(Outer)
    /\ Retries \in Nat
    /\ ConvertFails \in BOOLEAN

VARIABLES
    heap,       \* held: slot -> resource; needs: resource -> those it uses; live;
                \* misused: resources used when gone, or given back when in use
    qpState,    \* queue pair -> its state in the device
    at,         \* the call the program is at
    tries,      \* how often that call has failed
    frame,      \* the locals constructed so far, in order
    phase       \* of the program

resVars == <<heap, qpState, at, tries, frame, phase>>

\* Calls.  `on' names the objects a call is given, by role.
New(class, obj, on) == [op |-> class, obj |-> obj, on |-> on]
Command(op, obj, on) == [op |-> op, obj |-> obj, on |-> on]

Commands == {"reset_to_init", "init_to_rtr", "rtr_to_rts", "post"}
Constructs(c) == c.op \notin Commands
CallsOf(S) == {i \in 1 .. Len(Program) : Program[i].op \in S}
Qps == {Program[i].obj : i \in CallsOf({"qp"})}
Objects == Outer \cup {Program[i].obj : i \in 1 .. Len(Program)}

\* Before call i there is an object o of a class: it was given, or made.
Made(class, o, i) ==
    \/ class = "device" /\ o \in Outer
    \/ \E j \in 1 .. i - 1 : Program[j].op = class /\ Program[j].obj = o

\* A call names objects that are there, of the classes its parameters have.
WellScoped(c, i) ==
    /\ c.op \in Commands \cup {"device", "pd", "umem", "uar", "cq", "qp", "mkey", "mr"}
    /\ c.op \in Commands => Made("qp", c.obj, i)
    /\ c.op \in {"pd", "umem", "uar", "cq", "qp", "mr"} => Made("device", c.on.dev, i)
    /\ c.op \in {"qp", "mkey", "mr", "init_to_rtr"} => Made("pd", c.on.pd, i)
    /\ c.op = "qp" => /\ Made("cq", c.on.cq, i)
                      /\ Made("uar", c.on.uar, i)
                      /\ Made("umem", c.on.sq, i)
                      /\ Made("umem", c.on.db, i)

\* C++ sees to it, and that an object is constructed once.
ASSUME ProgramAssumption ==
    /\ Len(Program) \in Nat
    /\ \A i \in 1 .. Len(Program) : WellScoped(Program[i], i)
    /\ \A i \in 1 .. Len(Program) : Constructs(Program[i]) =>
        /\ Program[i].obj \notin Outer
        /\ \A j \in 1 .. Len(Program) :
              Constructs(Program[j]) /\ Program[j].obj = Program[i].obj => j = i

Members == {"self", "_uar", "_umem", "_umem_db"}
Pointers == {"_device_list", "_context", "_pd", "_umem", "_umem_buf", "_uar",
             "_cq", "_qp", "_ah", "_mkey", "_cross_mr"}
Slots == Objects \X Members \X Pointers

Context(dev) == <<dev, "self", "_context">>
Pd(pd) == <<pd, "self", "_pd">>

--------------------------------------------------------------------------------
(***************************************************************************)
(* One resource.                                                           *)
(***************************************************************************)

Hold(h, s, k) == [h EXCEPT !.held[s] = k]

\* The verbs library creates a resource that uses those the given slots hold.
Grab(h, s, uses) ==
    LET k == Len(h.needs) + 1
        used == {h.held[u] : u \in uses}
    IN  [held |-> [h.held EXCEPT ![s] = k],
         needs |-> Append(h.needs, used),
         live |-> h.live \cup {k},
         misused |-> h.misused \cup (used \ h.live)]

InUse(h, k) == \E l \in h.live : k \in h.needs[l]

\* Release what a slot holds and set it to nullptr.  The kernel refuses to
\* destroy what is in use, and nobody looks at the result; free() never refuses.
Drop(h, s) ==
    LET k == h.held[s]
        refused == InUse(h, k) /\ s[3] # "_umem_buf"
    IN  IF k = 0 THEN h
        ELSE [Hold(h, s, 0) EXCEPT
                 !.live = IF refused THEN @ ELSE @ \ {k},
                 !.misused = IF InUse(h, k) THEN @ \cup {k} ELSE @]

--------------------------------------------------------------------------------
(***************************************************************************)
(* A method returns one of several outcomes: what the heap is afterwards,  *)
(* and whether it returned STATUS_OK.                                      *)
(***************************************************************************)

Ok(h) == [heap |-> h, ok |-> TRUE]
Err(h) == [heap |-> h, ok |-> FALSE]

\* Go on with the outcomes that succeeded.
Then(outcomes, Rest(_)) ==
    {r \in outcomes : ~r.ok} \cup UNION {Rest(r.heap) : r \in {o \in outcomes : o.ok}}

\* p = create(...); if (!p) return STATUS_ERR;
Create(h, s, uses) == {Ok(Grab(h, s, uses)), Err(Hold(h, s, 0))}

\* if (query(...)) return STATUS_ERR;
Query(h) == {Ok(h), Err(h)}

DeviceDestroy(h, o) == Drop(Drop(h, Context(o)), <<o, "self", "_device_list">>)

\* Whatever fails between the list and the capabilities is undone at once; a
\* failed query of the capabilities is left to the destructor.
DeviceInitialize(h, o) ==
    LET opened(a) == Then(Query(a), LAMBDA b : Then(Create(b, Context(o), {}), Query))
        undone(a) == {IF r.ok THEN r ELSE Err(DeviceDestroy(r.heap, o)) : r \in opened(a)}
    IN  Then(Create(h, <<o, "self", "_device_list">>, {}),
             LAMBDA a : Then(undone(a), Query))

PdDestroy(h, o) == Drop(h, Pd(o))

\* A failed mlx5dv_init_obj forgets the domain it was given.
PdInitialize(h, o, on) ==
    Then(Create(h, Pd(o), {Context(on.dev)}),
         LAMBDA a : {Ok(a)} \cup IF ConvertFails THEN {Err(Hold(a, Pd(o), 0))} ELSE {})

\* Fault for the mutation runs: the buffer goes while it is registered.
UmemDestroyFreeFirst(h, o, m) == Drop(Drop(h, <<o, m, "_umem_buf">>), <<o, m, "_umem">>)
UmemDestroy(h, o, m) == Drop(Drop(h, <<o, m, "_umem">>), <<o, m, "_umem_buf">>)

\* A failed registration frees the buffer; an initialised object stays as it is.
UmemInitialize(h, o, m, dev) ==
    LET buf == <<o, m, "_umem_buf">>
        umem == <<o, m, "_umem">>
        registered(a) == {IF r.ok THEN r ELSE Err(Drop(r.heap, buf)) :
                             r \in Create(a, umem, {buf, Context(dev)})}
    IN  IF h.held[umem] # 0 THEN {Ok(h)} ELSE Then(Create(h, buf, {}), registered)

UarDestroy(h, o, m) == Drop(h, <<o, m, "_uar">>)
UarInitialize(h, o, m, dev) == Create(h, <<o, m, "_uar">>, {Context(dev)})

\* Faults for the mutation runs: the memory goes before the queue that uses it,
\* and cannot go; the memory of a region is kept.
CqDestroyUmemFirst(h, o) ==
    Drop(UarDestroy(UmemDestroy(UmemDestroy(h, o, "_umem_db"), o, "_umem"), o, "_uar"),
         <<o, "self", "_cq">>)
MrDestroyKeepsUmem(h, o) == Drop(h, <<o, "self", "_cross_mr">>)

CqDestroy(h, o) ==
    UarDestroy(UmemDestroy(UmemDestroy(Drop(h, <<o, "self", "_cq">>), o, "_umem_db"),
                           o, "_umem"),
               o, "_uar")

\* Ring, doorbell record and register come first, then the event queue number.
CqInitialize(h, o, on) ==
    Then(UarInitialize(h, o, "_uar", on.dev), LAMBDA a :
    Then(UmemInitialize(a, o, "_umem_db", on.dev), LAMBDA b :
    Then(UmemInitialize(b, o, "_umem", on.dev), LAMBDA c :
    Then(Query(c), LAMBDA d :
         Create(d, <<o, "self", "_cq">>,
                {Context(on.dev), <<o, "_uar", "_uar">>,
                 <<o, "_umem_db", "_umem">>, <<o, "_umem", "_umem">>})))))

QpDestroy(h, o) == Drop(Drop(h, <<o, "self", "_qp">>), <<o, "self", "_ah">>)

QpInitialize(h, o, on) ==
    IF h.held[<<o, "self", "_qp">>] # 0 THEN {Ok(h)}
    ELSE Create(h, <<o, "self", "_qp">>,
                {Context(on.dev), Pd(on.pd), <<on.cq, "self", "_cq">>,
                 <<on.uar, "self", "_uar">>, <<on.sq, "self", "_umem">>,
                 <<on.db, "self", "_umem">>})

\* The address handle init_to_rtr puts into the command.
CreateAh(h, o, on) == Create(h, <<o, "self", "_ah">>, {Pd(on.pd)})

MkeyDestroy(h, o) == Drop(h, <<o, "self", "_mkey">>)
MkeyInitialize(h, o, on) == Create(h, <<o, "self", "_mkey">>, {Pd(on.pd)})

\* A new user_memory each time: what the last one held is forgotten with it.
CreateUserMemory(h, o, dev) ==
    UmemInitialize(Hold(Hold(h, <<o, "_umem", "_umem">>, 0), <<o, "_umem", "_umem_buf">>, 0),
                   o, "_umem", dev)
DestroyUserMemory(h, o) == UmemDestroy(h, o, "_umem")

MrDestroy(h, o) == DestroyUserMemory(Drop(h, <<o, "self", "_cross_mr">>), o)

MrInitialize(h, o, on) ==
    IF h.held[<<o, "self", "_cross_mr">>] # 0 THEN {Ok(h)}
    ELSE Then(CreateUserMemory(h, o, on.dev), LAMBDA a :
              Create(a, <<o, "self", "_cross_mr">>,
                     {Context(on.dev), Pd(on.pd), <<o, "_umem", "_umem">>}))

--------------------------------------------------------------------------------
(***************************************************************************)
(* Connecting queue pairs: a device command each.  The device takes it in  *)
(* one state and refuses it, or fails, without a change.                   *)
(***************************************************************************)

QpStates == {"none", "RST", "INIT", "RTR", "RTS"}

Modify(h, o, from) ==
    {Err(h)} \cup IF qpState[o] = from THEN {Ok(h)} ELSE {}

CommandOutcomes(c, h) ==
    IF h.held[<<c.obj, "self", "_qp">>] = 0 THEN {Err(h)}
    ELSE CASE c.op = "reset_to_init" -> Modify(h, c.obj, "RST")
           [] c.op = "init_to_rtr" -> Then(CreateAh(h, c.obj, c.on),
                                           LAMBDA a : Modify(a, c.obj, "INIT"))
           [] c.op = "rtr_to_rts" -> Modify(h, c.obj, "RTR")
           [] c.op = "post" -> {Ok(h)}

Outcomes(c, h) ==
    CASE c.op = "device" -> DeviceInitialize(h, c.obj)
      [] c.op = "pd" -> PdInitialize(h, c.obj, c.on)
      [] c.op = "umem" -> UmemInitialize(h, c.obj, "self", c.on.dev)
      [] c.op = "uar" -> UarInitialize(h, c.obj, "self", c.on.dev)
      [] c.op = "cq" -> CqInitialize(h, c.obj, c.on)
      [] c.op = "qp" -> QpInitialize(h, c.obj, c.on)
      [] c.op = "mkey" -> MkeyInitialize(h, c.obj, c.on)
      [] c.op = "mr" -> MrInitialize(h, c.obj, c.on)
      [] OTHER -> CommandOutcomes(c, h)

Destructor(c, h) ==
    CASE c.op = "device" -> DeviceDestroy(h, c.obj)
      [] c.op = "pd" -> PdDestroy(h, c.obj)
      [] c.op = "umem" -> UmemDestroy(h, c.obj, "self")
      [] c.op = "uar" -> UarDestroy(h, c.obj, "self")
      [] c.op = "cq" -> CqDestroy(h, c.obj)
      [] c.op = "qp" -> QpDestroy(h, c.obj)
      [] c.op = "mkey" -> MkeyDestroy(h, c.obj)
      [] c.op = "mr" -> MrDestroy(h, c.obj)

StateAfter(c) ==
    CASE c.op = "qp" -> "RST"
      [] c.op = "reset_to_init" -> "INIT"
      [] c.op = "init_to_rtr" -> "RTR"
      [] c.op = "rtr_to_rts" -> "RTS"
      [] OTHER -> qpState[c.obj]

--------------------------------------------------------------------------------
(***************************************************************************)
(* The program.                                                            *)
(***************************************************************************)

\* What the given devices hold before the program starts: a list and a context.
OuterSlots == {Context(o) : o \in Outer} \cup {<<o, "self", "_device_list">> : o \in Outer}

OuterHeap ==
    LET n == Cardinality(OuterSlots)
        number == CHOOSE f \in Bijection(OuterSlots, 1 .. n) : TRUE
    IN  [held |-> [s \in Slots |-> IF s \in OuterSlots THEN number[s] ELSE 0],
         needs |-> [k \in 1 .. n |-> {}],
         live |-> 1 .. n,
         misused |-> {}]

ResInit ==
    /\ heap = OuterHeap
    /\ qpState = [q \in Qps |-> "none"]
    /\ at = 1
    /\ tries = 0
    /\ frame = <<>>
    /\ phase = "running"

\* Construct the local object of a call before it is first used.
Declare(c) == IF Constructs(c) /\ tries = 0 THEN Append(frame, c) ELSE frame

CallSucceeds(c) ==
    /\ \E r \in Outcomes(c, heap) : r.ok /\ heap' = r.heap
    /\ qpState' = IF c.obj \in Qps THEN [qpState EXCEPT ![c.obj] = StateAfter(c)] ELSE qpState
    /\ at' = at + 1
    /\ tries' = 0
    /\ UNCHANGED phase

\* Faults for the mutation runs: the result of a transition is not looked at; one
\* try too many.
CallFailsIgnored(c) ==
    /\ \E r \in Outcomes(c, heap) : ~r.ok /\ heap' = r.heap
    /\ IF Constructs(c) THEN phase' = "failed" /\ at' = at ELSE phase' = phase /\ at' = at + 1
    /\ UNCHANGED <<qpState, tries>>

CallFailsRetriesMore(c) ==
    /\ \E r \in Outcomes(c, heap) : ~r.ok /\ heap' = r.heap
    /\ \/ phase' = "failed" /\ tries' = tries
       \/ c.op \in RetryOps /\ tries <= Retries /\ phase' = phase /\ tries' = tries + 1
    /\ UNCHANGED <<qpState, at>>

\* if (FAILED(res)) return res; or the caller tries again.
CallFails(c) ==
    /\ \E r \in Outcomes(c, heap) : ~r.ok /\ heap' = r.heap
    /\ \/ phase' = "failed" /\ tries' = tries
       \/ c.op \in RetryOps /\ tries < Retries /\ phase' = phase /\ tries' = tries + 1
    /\ UNCHANGED <<qpState, at>>

Call ==
    /\ phase = "running"
    /\ at <= Len(Program)
    /\ frame' = Declare(Program[at])
    /\ CallSucceeds(Program[at]) \/ CallFails(Program[at])

Finish ==
    /\ phase = "running"
    /\ at > Len(Program)
    /\ phase' = "finished"
    /\ UNCHANGED <<heap, qpState, at, tries, frame>>

\* The program returns: its locals go, the last one first.
Destruct ==
    /\ phase \in {"failed", "finished"}
    /\ frame # <<>>
    /\ heap' = Destructor(Last(frame), heap)
    /\ frame' = Front(frame)
    /\ UNCHANGED <<qpState, at, tries, phase>>

Returned == phase \in {"failed", "finished"} /\ frame = <<>>

ResNext == Call \/ Finish \/ Destruct

ResSpec == ResInit /\ [][ResNext]_resVars

--------------------------------------------------------------------------------
(***************************************************************************)
(* Properties.                                                             *)
(***************************************************************************)

\* Types; a slot never holds a number nobody handed out.
ResTypeOK ==
    /\ heap.needs \in Seq(SUBSET (0 .. Len(heap.needs)))
    /\ heap.live \subseteq 1 .. Len(heap.needs)
    /\ heap.misused \subseteq 0 .. Len(heap.needs)
    /\ heap.held \in [Slots -> 0 .. Len(heap.needs)]
    /\ qpState \in [Qps -> QpStates]
    /\ at \in 1 .. Len(Program) + 1
    /\ tries \in 0 .. Retries
    /\ \A i \in 1 .. Len(frame) : frame[i].obj \in Objects
    /\ phase \in {"running", "failed", "finished"}

\* Whichever call fails, nothing is created from a resource that is gone, and
\* nothing is given back while the device or the driver still uses it: no buffer
\* is freed while it is registered, no memory or register deregistered under a
\* queue, no domain released under a queue pair, a handle or a memory key.
NothingMisused == heap.misused = {}

\* Whichever call fails, once the program has returned it has given back all it
\* acquired: no destroy() came too early and was refused, no pointer was lost.
AllReleased ==
    Returned => heap.live = {heap.held[s] : s \in Outer \X Members \X Pointers} \ {0}

\* The program posts only on queue pairs that are both ready to send: no failed
\* or skipped transition goes unnoticed.
PostsOnlyConnected ==
    (phase = "running" /\ at \in CallsOf({"post"})) => \A q \in Qps : qpState[q] = "RTS"
================================================================================
