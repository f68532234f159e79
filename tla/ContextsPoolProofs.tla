-------------------------- MODULE ContextsPoolProofs --------------------------
(***************************************************************************)
(* Proofs about the contexts pool, for any number of contexts, workers,    *)
(* listeners and callers.                                                  *)
(*                                                                         *)
(* Every step moves some contexts from one spot (a list, or the hands of a *)
(* kind of thread) to another, or none.  StepMoves says which moves there  *)
(* are; that each context stays in one place, that its type goes with the  *)
(* place, and that the pool implements Scheduler all follow from it.       *)
(***************************************************************************)
EXTENDS ContextsPool, ListLemmas, FiniteSetTheorems, TLAPS

-----------------------------------------------------------------------------
(* Lemmas about hands.                                                     *)

\* A thread that holds none takes a context that no other holds.
LEMMA HoldOne ==
  ASSUME NEW I, NEW h \in [I -> ContextOrNone], NEW i \in I,
         h[i] = NoContext, Alone(h), NEW c \in Context, c \notin Held(h)
  PROVE  /\ Held([h EXCEPT ![i] = c]) = Held(h) \cup {c}
         /\ Alone([h EXCEPT ![i] = c])
BY PoolAssumption DEF Held, Range, Alone, ContextOrNone

\* A thread lets go of the context it alone holds.
LEMMA DropOne ==
  ASSUME NEW I, NEW h \in [I -> ContextOrNone], NEW i \in I,
         h[i] # NoContext, Alone(h)
  PROVE  /\ h[i] \in Held(h)
         /\ Held([h EXCEPT ![i] = NoContext]) = Held(h) \ {h[i]}
         /\ Alone([h EXCEPT ![i] = NoContext])
BY PoolAssumption DEF Held, Range, Alone, ContextOrNone

-----------------------------------------------------------------------------
(* Spots.                                                                  *)

\* The spots one by one.
LEMMA EachSpot ==
  /\ At["free"] = free /\ At["idling"] = idling /\ At["polling"] = polling
  /\ At["sleeping"] = sleeping /\ At["turning"] = ToSet(turning)
  /\ At["listener"] = Held(lctx) /\ At["epoll"] = {ectx} \ {NoContext}
  /\ At["scan"] = ToSet(temp_list) /\ At["worker"] = Held(wctx)
  /\ At["caller"] = Held(kctx) /\ At["waker"] = {c \in {vctx} : vpc = "put"}
BY DEF At, Spots

\* And after a step.
LEMMA EachSpotNext ==
  /\ At'["free"] = free' /\ At'["idling"] = idling' /\ At'["polling"] = polling'
  /\ At'["sleeping"] = sleeping' /\ At'["turning"] = ToSet(turning')
  /\ At'["listener"] = Held(lctx') /\ At'["epoll"] = {ectx'} \ {NoContext}
  /\ At'["scan"] = ToSet(temp_list') /\ At'["worker"] = Held(wctx')
  /\ At'["caller"] = Held(kctx') /\ At'["waker"] = {c \in {vctx'} : vpc' = "put"}
BY DEF At, Spots

\* The types of the contexts on a spot.
TypesOf(s) ==
  CASE s = "free"     -> {"FREE"}
    [] s = "listener" -> {"FREE", "CONSTRUCTING"}
    [] s = "idling"   -> {"IDLING"}
    [] s = "polling"  -> {"POLLING"}
    [] s \in {"sleeping", "waker"}       -> {"SLEEPING"}
    [] s \in {"turning", "worker"}       -> {"TURNING"}
    [] s \in {"epoll", "scan", "caller"} -> {"SWITCHING"}

\* Every context has a type of the spot it is on.
SpotTypes == \A s \in Spots : \A c \in At[s] : type[c] \in TypesOf(s)

\* Each context on one spot.
Partition ==
  /\ \A s, t \in Spots : s # t => At[s] \cap At[t] = {}
  /\ UNION {At[s] : s \in Spots} = Context

\* No list and no kind of thread has a context twice.
Singly ==
  /\ IsInjective(turning) /\ IsInjective(temp_list)
  /\ Alone(lctx) /\ Alone(wctx) /\ Alone(kctx)

\* Between two passes the scan thread holds nothing.
ScanHands == spc = "polling" => temp_list = <<>>

\* What every step keeps, and each step's move is proved from.
PlaceInv == TypeOK /\ Partition /\ Singly /\ SpotTypes /\ ScanHands

\* OnePlace is Partition and Singly.
LEMMA OnePlaceParts == OnePlace <=> Partition /\ Singly
BY DEF OnePlace, Partition, Singly

\* The contexts D move from s to t, and their types with them.
MoveOf(D, s, t) ==
  /\ D \subseteq At[s]
  /\ \A u \in Spots :
       At'[u] = (IF u = s THEN At[u] \ D ELSE At[u]) \cup (IF u = t THEN D ELSE {})
  /\ \A c \in Context \ D : type'[c] = type[c]
  /\ \A c \in D : type'[c] \in TypesOf(t)

\* A move keeps every context on one spot, with a type of that spot.
LEMMA MoveKeeps ==
  ASSUME Partition, SpotTypes, NEW s \in Spots, NEW t \in Spots, NEW D,
         MoveOf(D, s, t)
  PROVE  Partition' /\ SpotTypes'
<1>1. D \subseteq At[s] /\ At[s] \subseteq Context
  BY DEF MoveOf, Partition
<1>2. ASSUME NEW u \in Spots, NEW v \in Spots, u # v
      PROVE  At'[u] \cap At'[v] = {}
  BY <1>1, <1>2 DEF MoveOf, Partition
<1>3. UNION {At'[u] : u \in Spots} = Context
  <2>1. ASSUME NEW c \in Context
        PROVE  \E u \in Spots : c \in At'[u]
    <3>1. PICK u \in Spots : c \in At[u]
      BY DEF Partition
    <3>2. CASE c \in D
      BY <3>2 DEF MoveOf
    <3>3. CASE c \notin D
      BY <3>1, <3>3 DEF MoveOf
    <3> QED BY <3>2, <3>3
  <2>2. \A u \in Spots : At'[u] \subseteq Context
    BY <1>1 DEF MoveOf, Partition
  <2> QED BY <2>1, <2>2
<1>4. ASSUME NEW u \in Spots, NEW c \in At'[u]
      PROVE  type'[c] \in TypesOf(u)
  <2>1. CASE c \in D
    <3>1. u = t
      BY <2>1, <1>2, <1>4 DEF MoveOf
    <3> QED BY <2>1, <3>1 DEF MoveOf
  <2>2. CASE c \notin D
    <3>1. c \in At[u] /\ c \in Context
      BY <2>2, <1>4 DEF MoveOf, Partition
    <3>2. type'[c] = type[c]
      BY <2>2, <3>1 DEF MoveOf
    <3> QED BY <3>1, <3>2 DEF SpotTypes
  <2> QED BY <2>1, <2>2
<1> QED BY <1>2, <1>3, <1>4 DEF Partition, SpotTypes

-----------------------------------------------------------------------------
(* The moves of the steps.                                                 *)

\* From where to where a context may go.
Arrows ==
  {<<"free", "listener">>, <<"listener", "listener">>, <<"listener", "polling">>,
   <<"listener", "free">>, <<"polling", "epoll">>, <<"epoll", "turning">>,
   <<"polling", "scan">>, <<"idling", "scan">>, <<"scan", "turning">>,
   <<"turning", "worker">>, <<"worker", "turning">>, <<"worker", "idling">>,
   <<"worker", "polling">>, <<"worker", "sleeping">>, <<"worker", "free">>,
   <<"idling", "caller">>, <<"polling", "caller">>, <<"caller", "turning">>,
   <<"sleeping", "waker">>, <<"waker", "turning">>}

\* One context at a time, but for what the scan thread does.
Moves(s, t) ==
  \E D \in SUBSET Context :
    /\ MoveOf(D, s, t)
    /\ "scan" \in {s, t} \/ \E c \in Context : D \subseteq {c}

\* What every step does to the spots.
StepMoves == \E a \in Arrows : Moves(a[1], a[2])

\* A context is on no spot but its own.
LEMMA Elsewhere ==
  ASSUME Partition, NEW s \in Spots, NEW c \in At[s]
  PROVE  c \in Context /\ \A t \in Spots \ {s} : c \notin At[t]
BY DEF Partition

\* A listener takes a free context.
LEMMA GetFreeMoves ==
  ASSUME PlaceInv, NEW l \in Listener, GetFree(l)
  PROVE  StepMoves /\ Singly' /\ ScanHands'
<1>1. PICK c \in free : /\ free' = free \ {c}
                        /\ lctx' = [lctx EXCEPT ![l] = c]
  BY DEF GetFree
<1>2. c \in At["free"] /\ c \in Context /\ c \notin Held(lctx)
  BY <1>1, EachSpot, Elsewhere DEF PlaceInv, Spots
<1>3. Held(lctx') = Held(lctx) \cup {c} /\ Alone(lctx')
  <2>1. /\ lctx \in [Listener -> ContextOrNone] /\ lctx[l] = NoContext
        /\ Alone(lctx)
    BY DEF GetFree, PlaceInv, TypeOK, Singly
  <2>2. /\ Held([lctx EXCEPT ![l] = c]) = Held(lctx) \cup {c}
        /\ Alone([lctx EXCEPT ![l] = c])
    BY <1>2, <2>1, HoldOne
  <2> QED BY <1>1, <2>2
<1>4. MoveOf({c}, "free", "listener")
  <2>1. /\ At'["free"] = At["free"] \ {c}
        /\ At'["listener"] = At["listener"] \cup {c}
    BY <1>1, <1>3, EachSpot, EachSpotNext
  <2>2. \A u \in Spots \ {"free", "listener"} : At'[u] = At[u]
    BY EachSpot, EachSpotNext DEF GetFree, scanVars, wakeVars, Spots
  <2>3. type' = type /\ type[c] = "FREE"
    BY <1>2 DEF GetFree, PlaceInv, SpotTypes, TypesOf, Spots
  <2> QED BY <1>2, <2>1, <2>2, <2>3 DEF MoveOf, TypesOf
<1>5. StepMoves
  BY <1>2, <1>4 DEF StepMoves, Moves, Arrows
<1> QED BY <1>3, <1>5 DEF GetFree, scanVars, PlaceInv, Singly, ScanHands

\* Nothing moves.
LEMMA NoMove ==
  ASSUME \A u \in Spots : At'[u] = At[u], type' = type
  PROVE  StepMoves
<1>1. MoveOf({}, "scan", "turning")
  BY DEF MoveOf
<1> QED BY <1>1 DEF StepMoves, Moves, Arrows

\* What a type says of a context's spot.
LEMMA SpotOfType ==
  ASSUME PlaceInv, NEW c \in Context
  PROVE  /\ type[c] = "POLLING" => c \in polling
         /\ type[c] = "IDLING" => c \in idling
         /\ type[c] = "SLEEPING" /\ vpc # "put" => c \in sleeping
<1>1. PICK s \in Spots : c \in At[s] /\ type[c] \in TypesOf(s)
  BY DEF PlaceInv, Partition, SpotTypes
<1> QED BY <1>1, EachSpot DEF Spots, TypesOf

\* It stays with the listener when it is marked.
LEMMA ConstructMoves ==
  ASSUME PlaceInv, NEW l \in Listener, Construct(l)
  PROVE  StepMoves /\ Singly' /\ ScanHands'
<1> DEFINE c == lctx[l]
<1>1. c \in At["listener"]
  <2>1. lctx \in [Listener -> ContextOrNone] /\ c # NoContext /\ Alone(lctx)
    BY DEF Construct, PlaceInv, TypeOK, Singly
  <2>2. /\ c \in Held(lctx)
        /\ Held([lctx EXCEPT ![l] = NoContext]) = Held(lctx) \ {c}
        /\ Alone([lctx EXCEPT ![l] = NoContext])
    BY <2>1, DropOne
  <2> QED BY <2>2, EachSpot
<1>2. MoveOf({c}, "listener", "listener")
  <2>1. \A u \in Spots : At'[u] = At[u]
    BY EachSpot, EachSpotNext DEF Construct, listVars, scanVars, wakeVars, Spots
  <2>2. /\ \A d \in Context \ {c} : type'[d] = type[d]
        /\ type'[c] = "CONSTRUCTING"
    <3>1. type \in [Context -> Types] /\ c \in Context
      BY <1>1, Elsewhere DEF PlaceInv, TypeOK, Spots
    <3> QED BY <3>1 DEF Construct, SetType
  <2> QED BY <1>1, <2>1, <2>2 DEF MoveOf, TypesOf
<1>3. c \in Context
  BY <1>1, Elsewhere DEF PlaceInv, Spots
<1>4. StepMoves
  BY <1>2, <1>3 DEF StepMoves, Moves, Arrows
<1> QED BY <1>4 DEF Construct, listVars, scanVars, PlaceInv, Singly, ScanHands

\* It is polled.
LEMMA AcceptMoves ==
  ASSUME PlaceInv, NEW l \in Listener, Accept(l)
  PROVE  StepMoves /\ Singly' /\ ScanHands'
<1> DEFINE c == lctx[l]
<1>1. /\ c \in At["listener"]
      /\ Held([lctx EXCEPT ![l] = NoContext]) = Held(lctx) \ {c}
      /\ Alone([lctx EXCEPT ![l] = NoContext])
  <2>1. lctx \in [Listener -> ContextOrNone] /\ c # NoContext /\ Alone(lctx)
    BY DEF Accept, PlaceInv, TypeOK, Singly
  <2>2. /\ c \in Held(lctx)
        /\ Held([lctx EXCEPT ![l] = NoContext]) = Held(lctx) \ {c}
        /\ Alone([lctx EXCEPT ![l] = NoContext])
    BY <2>1, DropOne
  <2> QED BY <2>2, EachSpot
<1>2. c \in Context
  BY <1>1, Elsewhere DEF PlaceInv, Spots
<1>3. Held(lctx') = Held(lctx) \ {c} /\ Alone(lctx')
  BY <1>1 DEF Accept
<1>4. MoveOf({c}, "listener", "polling")
  <2>1. /\ At'["listener"] = At["listener"] \ {c}
        /\ At'["polling"] = At["polling"] \cup {c}
    BY <1>3, EachSpot, EachSpotNext DEF Accept, PutPolling
  <2>2. \A u \in Spots \ {"listener", "polling"} : At'[u] = At[u]
    BY EachSpot, EachSpotNext DEF Accept, PutPolling, scanVars, wakeVars, Spots
  <2>3. /\ \A d \in Context \ {c} : type'[d] = type[d]
        /\ type'[c] = "POLLING"
    <3>1. type \in [Context -> Types]
      BY DEF PlaceInv, TypeOK
    <3> QED BY <1>2, <3>1 DEF Accept, PutPolling, SetType
  <2> QED BY <1>1, <2>1, <2>2, <2>3 DEF MoveOf, TypesOf
<1>5. StepMoves
  BY <1>2, <1>4 DEF StepMoves, Moves, Arrows
<1> QED
  BY <1>3, <1>5 DEF Accept, PutPolling, scanVars, PlaceInv, Singly, ScanHands

\* Or freed again.
LEMMA RejectMoves ==
  ASSUME PlaceInv, NEW l \in Listener, Reject(l)
  PROVE  StepMoves /\ Singly' /\ ScanHands'
<1> DEFINE c == lctx[l]
<1>1. /\ c \in At["listener"]
      /\ Held([lctx EXCEPT ![l] = NoContext]) = Held(lctx) \ {c}
      /\ Alone([lctx EXCEPT ![l] = NoContext])
  <2>1. lctx \in [Listener -> ContextOrNone] /\ c # NoContext /\ Alone(lctx)
    BY DEF Reject, PlaceInv, TypeOK, Singly
  <2>2. /\ c \in Held(lctx)
        /\ Held([lctx EXCEPT ![l] = NoContext]) = Held(lctx) \ {c}
        /\ Alone([lctx EXCEPT ![l] = NoContext])
    BY <2>1, DropOne
  <2> QED BY <2>2, EachSpot
<1>2. c \in Context
  BY <1>1, Elsewhere DEF PlaceInv, Spots
<1>3. Held(lctx') = Held(lctx) \ {c} /\ Alone(lctx')
  BY <1>1 DEF Reject
<1>4. MoveOf({c}, "listener", "free")
  <2>1. /\ At'["listener"] = At["listener"] \ {c}
        /\ At'["free"] = At["free"] \cup {c}
    BY <1>3, EachSpot, EachSpotNext DEF Reject, PutFree
  <2>2. \A u \in Spots \ {"listener", "free"} : At'[u] = At[u]
    BY EachSpot, EachSpotNext DEF Reject, PutFree, scanVars, wakeVars, Spots
  <2>3. /\ \A d \in Context \ {c} : type'[d] = type[d]
        /\ type'[c] = "FREE"
    <3>1. type \in [Context -> Types]
      BY DEF PlaceInv, TypeOK
    <3> QED BY <1>2, <3>1 DEF Reject, PutFree, SetType
  <2> QED BY <1>1, <2>1, <2>2, <2>3 DEF MoveOf, TypesOf
<1>5. StepMoves
  BY <1>2, <1>4 DEF StepMoves, Moves, Arrows
<1> QED
  BY <1>3, <1>5 DEF Reject, PutFree, scanVars, PlaceInv, Singly, ScanHands

\* One context moves.
LEMMA MoveOne ==
  ASSUME NEW s \in Spots, NEW t \in Spots, s # t, NEW c \in At[s],
         At'[s] = At[s] \ {c}, At'[t] = At[t] \cup {c},
         \A u \in Spots \ {s, t} : At'[u] = At[u],
         \A d \in Context \ {c} : type'[d] = type[d],
         type'[c] \in TypesOf(t)
  PROVE  MoveOf({c}, s, t)
BY DEF MoveOf

\* The end of every way to the turning list.
LEMMA TurnMoves ==
  ASSUME PlaceInv, NEW s \in {"epoll", "caller", "waker", "worker"},
         NEW c \in At[s], PutTurning(c), At'[s] = At[s] \ {c},
         \A u \in Spots \ {s, "turning", "idling", "polling", "free", "sleeping"} :
           At'[u] = At[u]
  PROVE  StepMoves /\ IsInjective(turning')
<1>1. s \in Spots /\ "turning" \in Spots /\ s # "turning"
  BY DEF Spots
<1>2. c \in Context /\ c \notin ToSet(turning)
  BY <1>1, Elsewhere, EachSpot DEF PlaceInv
<1>3. turning \in Seq(Context) /\ IsInjective(turning)
  BY DEF PlaceInv, TypeOK, Singly
<1>4. /\ ToSet(Append(turning, c)) = ToSet(turning) \cup {c}
      /\ IsInjective(Append(turning, c))
  BY <1>2, <1>3, AppendOne
<1>5. ToSet(turning') = ToSet(turning) \cup {c} /\ IsInjective(turning')
  BY <1>4 DEF PutTurning
<1>6. At'["turning"] = At["turning"] \cup {c}
  BY <1>5, EachSpot, EachSpotNext
<1>7. \A u \in {"idling", "polling", "free", "sleeping"} : At'[u] = At[u]
  BY EachSpot, EachSpotNext DEF PutTurning
<1>8. /\ \A d \in Context \ {c} : type'[d] = type[d]
      /\ type'[c] = "TURNING"
  <2>1. type \in [Context -> Types]
    BY DEF PlaceInv, TypeOK
  <2> QED BY <1>2, <2>1 DEF PutTurning, SetType
<1>9. MoveOf({c}, s, "turning")
  <2>1. \A u \in Spots \ {s, "turning"} : At'[u] = At[u]
    BY <1>7
  <2>2. type'[c] \in TypesOf("turning")
    BY <1>8 DEF TypesOf
  <2> QED BY <1>1, <1>6, <1>8, <2>1, <2>2, MoveOne
<1>10. StepMoves
  BY <1>2, <1>9 DEF StepMoves, Moves, Arrows
<1> QED BY <1>5, <1>10

\* The epoll thread takes a polled context, or leaves it alone.
LEMMA LookMoves ==
  ASSUME PlaceInv, Look
  PROVE  StepMoves /\ Singly' /\ ScanHands'
<1>1. Singly' /\ ScanHands'
  BY DEF Look, scanVars, PlaceInv, Singly, ScanHands
<1>2. PICK c \in events :
        \/ StillPolled(c) /\ polling' = polling \ {c} /\ Switch({c}) /\ ectx' = c
        \/ UNCHANGED <<polling, type, ectx>>
  BY DEF Look
<1>3. \A u \in Spots \ {"polling", "epoll"} : At'[u] = At[u]
  BY EachSpot, EachSpotNext DEF Look, scanVars, wakeVars, Spots
<1>4. CASE UNCHANGED <<polling, type, ectx>>
  <2>1. \A u \in {"polling", "epoll"} : At'[u] = At[u]
    BY <1>4, EachSpot, EachSpotNext
  <2> QED BY <1>1, <1>3, <1>4, <2>1, NoMove
<1>5. CASE StillPolled(c) /\ polling' = polling \ {c} /\ Switch({c}) /\ ectx' = c
  <2>1. c \in Context
    BY DEF PlaceInv, TypeOK
  <2>2. c \in At["polling"]
    BY <1>5, <2>1, SpotOfType, EachSpot DEF StillPolled
  <2>3. /\ At'["polling"] = At["polling"] \ {c}
        /\ At'["epoll"] = At["epoll"] \cup {c}
    <3>1. ectx = NoContext /\ c # NoContext
      BY <2>1, PoolAssumption DEF Look
    <3> QED BY <1>5, <3>1, EachSpot, EachSpotNext
  <2>4. /\ \A d \in Context \ {c} : type'[d] = type[d]
        /\ type'[c] \in TypesOf("epoll")
    BY <1>5, <2>1 DEF Switch, TypesOf
  <2>5. MoveOf({c}, "polling", "epoll")
    BY <1>3, <2>2, <2>3, <2>4 DEF MoveOf
  <2>6. StepMoves
    BY <2>1, <2>5 DEF StepMoves, Moves, Arrows
  <2> QED BY <1>1, <2>6
<1> QED BY <1>2, <1>4, <1>5

\* It puts it on the turning list.
LEMMA SwitchEventMoves ==
  ASSUME PlaceInv, SwitchEvent
  PROVE  StepMoves /\ Singly' /\ ScanHands'
<1>1. /\ ectx \in At["epoll"] /\ PutTurning(ectx)
      /\ At'["epoll"] = At["epoll"] \ {ectx}
  BY EachSpot, EachSpotNext DEF SwitchEvent
<1>2. \A u \in Spots \ {"epoll", "turning", "idling", "polling", "free", "sleeping"} :
        At'[u] = At[u]
  BY EachSpot, EachSpotNext DEF SwitchEvent, scanVars, wakeVars, Spots
<1>3. StepMoves /\ IsInjective(turning')
  BY <1>1, <1>2, TurnMoves
<1> QED BY <1>3 DEF SwitchEvent, scanVars, PlaceInv, Singly, ScanHands

\* So does a caller.
LEMMA SwitchCalledMoves ==
  ASSUME PlaceInv, NEW k \in Caller, SwitchCalled(k)
  PROVE  StepMoves /\ Singly' /\ ScanHands'
<1>1. /\ kctx[k] \in Held(kctx)
      /\ Held([kctx EXCEPT ![k] = NoContext]) = Held(kctx) \ {kctx[k]}
      /\ Alone([kctx EXCEPT ![k] = NoContext])
  <2>1. /\ kctx \in [Caller -> ContextOrNone] /\ kctx[k] # NoContext
        /\ Alone(kctx)
    BY DEF SwitchCalled, PlaceInv, TypeOK, Singly
  <2> QED BY <2>1, DropOne
<1>2. Held(kctx') = Held(kctx) \ {kctx[k]} /\ Alone(kctx')
  BY <1>1 DEF SwitchCalled
<1>3. /\ kctx[k] \in At["caller"] /\ PutTurning(kctx[k])
      /\ At'["caller"] = At["caller"] \ {kctx[k]}
  BY <1>1, <1>2, EachSpot, EachSpotNext DEF SwitchCalled
<1>4. \A u \in Spots \ {"caller", "turning", "idling", "polling", "free", "sleeping"} :
        At'[u] = At[u]
  BY EachSpot, EachSpotNext DEF SwitchCalled, scanVars, wakeVars, Spots
<1>5. StepMoves /\ IsInjective(turning')
  BY <1>3, <1>4, TurnMoves
<1> QED BY <1>2, <1>5 DEF SwitchCalled, scanVars, PlaceInv, Singly, ScanHands

\* And the waker.
LEMMA SwitchWokenMoves ==
  ASSUME PlaceInv, SwitchWoken
  PROVE  StepMoves /\ Singly' /\ ScanHands'
<1>1. /\ vctx \in At["waker"] /\ PutTurning(vctx)
      /\ At'["waker"] = At["waker"] \ {vctx}
  BY EachSpot, EachSpotNext DEF SwitchWoken
<1>2. \A u \in Spots \ {"waker", "turning", "idling", "polling", "free", "sleeping"} :
        At'[u] = At[u]
  BY EachSpot, EachSpotNext DEF SwitchWoken, scanVars, Spots
<1>3. StepMoves /\ IsInjective(turning')
  BY <1>1, <1>2, TurnMoves
<1> QED BY <1>3 DEF SwitchWoken, scanVars, PlaceInv, Singly, ScanHands

\* A caller takes an idle context.
LEMMA SignalMoves ==
  ASSUME PlaceInv, NEW k \in Caller, Signal(k)
  PROVE  StepMoves /\ Singly' /\ ScanHands'
<1>1. PICK c \in Context : /\ type[c] = "IDLING"
                           /\ idling' = idling \ {c}
                           /\ Switch({c})
                           /\ kctx' = [kctx EXCEPT ![k] = c]
  BY DEF Signal
<1>2. c \in At["idling"]
  BY <1>1, SpotOfType, EachSpot
<1>3. c \notin Held(kctx)
  BY <1>2, Elsewhere, EachSpot DEF PlaceInv, Spots
<1>4. /\ Held([kctx EXCEPT ![k] = c]) = Held(kctx) \cup {c}
      /\ Alone([kctx EXCEPT ![k] = c])
  <2>1. /\ kctx \in [Caller -> ContextOrNone] /\ kctx[k] = NoContext
        /\ Alone(kctx)
    BY DEF Signal, PlaceInv, TypeOK, Singly
  <2> QED BY <1>3, <2>1, HoldOne
<1>5. Held(kctx') = Held(kctx) \cup {c} /\ Alone(kctx')
  BY <1>1, <1>4
<1>6. MoveOf({c}, "idling", "caller")
  <2>1. /\ At'["idling"] = At["idling"] \ {c}
        /\ At'["caller"] = At["caller"] \cup {c}
    BY <1>1, <1>5, EachSpot, EachSpotNext
  <2>2. \A u \in Spots \ {"idling", "caller"} : At'[u] = At[u]
    BY EachSpot, EachSpotNext DEF Signal, scanVars, wakeVars, Spots
  <2>3. /\ \A d \in Context \ {c} : type'[d] = type[d]
        /\ type'[c] \in TypesOf("caller")
    BY <1>1 DEF Switch, TypesOf
  <2> QED BY <1>2, <2>1, <2>2, <2>3 DEF MoveOf
<1>7. StepMoves
  BY <1>6 DEF StepMoves, Moves, Arrows
<1> QED BY <1>5, <1>7 DEF Signal, scanVars, PlaceInv, Singly, ScanHands

\* Or a polled one.
LEMMA ActivateMoves ==
  ASSUME PlaceInv, NEW k \in Caller, Activate(k)
  PROVE  StepMoves /\ Singly' /\ ScanHands'
<1>1. PICK c \in Context : /\ type[c] = "POLLING"
                           /\ polling' = polling \ {c}
                           /\ Switch({c})
                           /\ kctx' = [kctx EXCEPT ![k] = c]
  BY DEF Activate
<1>2. c \in At["polling"]
  BY <1>1, SpotOfType, EachSpot
<1>3. c \notin Held(kctx)
  BY <1>2, Elsewhere, EachSpot DEF PlaceInv, Spots
<1>4. /\ Held([kctx EXCEPT ![k] = c]) = Held(kctx) \cup {c}
      /\ Alone([kctx EXCEPT ![k] = c])
  <2>1. /\ kctx \in [Caller -> ContextOrNone] /\ kctx[k] = NoContext
        /\ Alone(kctx)
    BY DEF Activate, PlaceInv, TypeOK, Singly
  <2> QED BY <1>3, <2>1, HoldOne
<1>5. Held(kctx') = Held(kctx) \cup {c} /\ Alone(kctx')
  BY <1>1, <1>4
<1>6. MoveOf({c}, "polling", "caller")
  <2>1. /\ At'["polling"] = At["polling"] \ {c}
        /\ At'["caller"] = At["caller"] \cup {c}
    BY <1>1, <1>5, EachSpot, EachSpotNext
  <2>2. \A u \in Spots \ {"polling", "caller"} : At'[u] = At[u]
    BY EachSpot, EachSpotNext DEF Activate, scanVars, wakeVars, Spots
  <2>3. /\ \A d \in Context \ {c} : type'[d] = type[d]
        /\ type'[c] \in TypesOf("caller")
    BY <1>1 DEF Switch, TypesOf
  <2> QED BY <1>2, <2>1, <2>2, <2>3 DEF MoveOf
<1>7. StepMoves
  BY <1>6 DEF StepMoves, Moves, Arrows
<1> QED BY <1>5, <1>7 DEF Activate, scanVars, PlaceInv, Singly, ScanHands

\* The waker takes the context it waits for off the sleeping list.
LEMMA WakeSleeperMoves ==
  ASSUME PlaceInv, WakeSleeper
  PROVE  StepMoves /\ Singly' /\ ScanHands'
<1>1. vctx \in Context
  BY DEF WakeSleeper, PlaceInv, TypeOK, ContextOrNone
<1>2. vctx \in At["sleeping"] /\ type[vctx] = "SLEEPING"
  BY <1>1, SpotOfType, EachSpot DEF WakeSleeper
<1>3. MoveOf({vctx}, "sleeping", "waker")
  <2>1. /\ At'["sleeping"] = At["sleeping"] \ {vctx}
        /\ At'["waker"] = At["waker"] \cup {vctx}
    BY EachSpot, EachSpotNext DEF WakeSleeper
  <2>2. \A u \in Spots \ {"sleeping", "waker"} : At'[u] = At[u]
    BY EachSpot, EachSpotNext DEF WakeSleeper, scanVars, Spots
  <2>3. type' = type /\ type[vctx] \in TypesOf("waker")
    BY <1>2 DEF WakeSleeper, TypesOf
  <2> QED BY <1>2, <2>1, <2>2, <2>3 DEF MoveOf
<1>4. StepMoves
  BY <1>1, <1>3 DEF StepMoves, Moves, Arrows
<1> QED BY <1>4 DEF WakeSleeper, scanVars, PlaceInv, Singly, ScanHands

\* Data arriving, epoll_wait, the parser at work, and the waker's choice.
LEMMA QuietMoves ==
  ASSUME PlaceInv,
         \/ \E c \in Context : Arrive(c) \/ PickSleeper(c)
         \/ Wait
         \/ \E w \in Worker : Process(w)
         \/ UNCHANGED vars
  PROVE  StepMoves /\ Singly' /\ ScanHands'
<1> DEFINE Quiet ==
             /\ UNCHANGED <<type, listVars, lctx, ectx, scanVars, wctx, kctx>>
             /\ \/ vctx' = vctx /\ vpc' = vpc
                \/ vpc = "get" /\ vpc' = "sleeping"
<1>1. Quiet
  <2>1. ASSUME NEW c \in Context, Arrive(c)
        PROVE  Quiet
    BY <2>1 DEF Arrive, wakeVars
  <2>2. ASSUME NEW c \in Context, PickSleeper(c)
        PROVE  Quiet
    BY <2>2 DEF PickSleeper
  <2>3. ASSUME Wait
        PROVE  Quiet
    BY <2>3 DEF Wait, wakeVars
  <2>4. ASSUME NEW w \in Worker, Process(w)
        PROVE  Quiet
    BY <2>4 DEF Process
  <2>5. ASSUME UNCHANGED vars
        PROVE  Quiet
    BY <2>5 DEF vars, wakeVars
  <2> QED BY <2>1, <2>2, <2>3, <2>4, <2>5
<1>2. \A u \in Spots : At'[u] = At[u]
  BY <1>1, EachSpot, EachSpotNext DEF listVars, scanVars, Spots
<1>3. StepMoves
  BY <1>1, <1>2, NoMove
<1> QED BY <1>1, <1>3 DEF listVars, scanVars, PlaceInv, Singly, ScanHands

\* A worker takes the head of the turning list.
LEMMA TakeMoves ==
  ASSUME PlaceInv, NEW w \in Worker, Take(w)
  PROVE  StepMoves /\ Singly' /\ ScanHands'
<1> DEFINE c == Head(turning)
<1>1. /\ c \in Context /\ c \in ToSet(turning)
      /\ ToSet(Tail(turning)) = ToSet(turning) \ {c}
      /\ IsInjective(Tail(turning))
  <2>1. turning \in Seq(Context) /\ turning # <<>> /\ IsInjective(turning)
    BY DEF Take, PlaceInv, TypeOK, Singly
  <2> QED BY <2>1, TakeHead
<1>2. c \in At["turning"] /\ c \notin Held(wctx)
  BY <1>1, Elsewhere, EachSpot DEF PlaceInv, Spots
<1>3. /\ Held([wctx EXCEPT ![w] = c]) = Held(wctx) \cup {c}
      /\ Alone([wctx EXCEPT ![w] = c])
  <2>1. /\ wctx \in [Worker -> ContextOrNone] /\ wctx[w] = NoContext
        /\ Alone(wctx)
    BY DEF Take, PlaceInv, TypeOK, Singly
  <2> QED BY <1>1, <1>2, <2>1, HoldOne
<1>4. /\ Held(wctx') = Held(wctx) \cup {c} /\ Alone(wctx')
      /\ ToSet(turning') = ToSet(turning) \ {c} /\ IsInjective(turning')
  BY <1>1, <1>3 DEF Take
<1>5. MoveOf({c}, "turning", "worker")
  <2>1. /\ At'["turning"] = At["turning"] \ {c}
        /\ At'["worker"] = At["worker"] \cup {c}
    BY <1>4, EachSpot, EachSpotNext
  <2>2. \A u \in Spots \ {"turning", "worker"} : At'[u] = At[u]
    BY EachSpot, EachSpotNext DEF Take, scanVars, wakeVars, Spots
  <2>3. type' = type /\ type[c] \in TypesOf("worker")
    BY <1>2 DEF Take, PlaceInv, SpotTypes, TypesOf, Spots
  <2> QED BY <1>2, <2>1, <2>2, <2>3 DEF MoveOf
<1>6. StepMoves
  BY <1>1, <1>5 DEF StepMoves, Moves, Arrows
<1> QED BY <1>4, <1>6 DEF Take, scanVars, PlaceInv, Singly, ScanHands

\* And puts it where its result says.
LEMMA PutMoves ==
  ASSUME PlaceInv, NEW w \in Worker, Put(w)
  PROVE  StepMoves /\ Singly' /\ ScanHands'
<1> DEFINE c == wctx[w]
<1>1. /\ c \in Held(wctx)
      /\ Held([wctx EXCEPT ![w] = NoContext]) = Held(wctx) \ {c}
      /\ Alone([wctx EXCEPT ![w] = NoContext])
  <2>1. /\ wctx \in [Worker -> ContextOrNone] /\ Alone(wctx)
        /\ wctx[w] = NoContext <=> wnext[w] = "get"
    BY DEF PlaceInv, TypeOK, Singly
  <2>2. c # NoContext
    BY <2>1 DEF Put
  <2> QED BY <2>1, <2>2, DropOne
<1>2. c \in Context
  BY <1>1, EachSpot, Elsewhere DEF PlaceInv, Spots
<1>3. c \in At["worker"] /\ At'["worker"] = At["worker"] \ {c}
  BY <1>1, EachSpot, EachSpotNext DEF Put
<1>4. type \in [Context -> Types]
  BY DEF PlaceInv, TypeOK
<1>5. \A u \in Spots \ {"worker", "free", "idling", "polling", "sleeping", "turning"} :
        At'[u] = At[u]
  BY EachSpot, EachSpotNext DEF Put, scanVars, wakeVars, Spots
<1>6. /\ IsInjective(temp_list') /\ Alone(lctx') /\ Alone(wctx') /\ Alone(kctx')
      /\ ScanHands'
  BY <1>1 DEF Put, scanVars, PlaceInv, Singly, ScanHands
<1>7. CASE wnext[w] = "CONTINUE" /\ PutTurning(c)
  <2>1. StepMoves /\ IsInjective(turning')
    BY <1>3, <1>5, <1>7, TurnMoves
  <2> QED BY <1>6, <2>1 DEF Singly
<1>8. CASE wnext[w] = "IDLE" /\ PutIdling(c)
  <2>1. /\ At'["idling"] = At["idling"] \cup {c}
        /\ \A u \in {"free", "idling", "polling", "sleeping", "turning"} \ {"idling"} :
             At'[u] = At[u]
    BY <1>8, EachSpot, EachSpotNext DEF PutIdling
  <2>2. \A u \in Spots \ {"worker", "idling"} : At'[u] = At[u]
    BY <1>5, <2>1
  <2>3. /\ \A d \in Context \ {c} : type'[d] = type[d]
        /\ type'[c] \in TypesOf("idling")
    BY <1>2, <1>4, <1>8 DEF PutIdling, SetType, TypesOf
  <2>4. MoveOf({c}, "worker", "idling")
    BY <1>3, <2>1, <2>2, <2>3 DEF MoveOf
  <2>5. StepMoves
    BY <1>2, <2>4 DEF StepMoves, Moves, Arrows
  <2>6. turning' = turning
    BY <1>8 DEF PutIdling
  <2> QED BY <1>6, <2>5, <2>6 DEF PlaceInv, Singly
<1>9. CASE \E in \in BOOLEAN : PutPolling(c, in)
  <2>1. /\ At'["polling"] = At["polling"] \cup {c}
        /\ \A u \in {"free", "idling", "polling", "sleeping", "turning"} \ {"polling"} :
             At'[u] = At[u]
    BY <1>9, EachSpot, EachSpotNext DEF PutPolling
  <2>2. \A u \in Spots \ {"worker", "polling"} : At'[u] = At[u]
    BY <1>5, <2>1
  <2>3. /\ \A d \in Context \ {c} : type'[d] = type[d]
        /\ type'[c] \in TypesOf("polling")
    BY <1>2, <1>4, <1>9 DEF PutPolling, SetType, TypesOf
  <2>4. MoveOf({c}, "worker", "polling")
    BY <1>3, <2>1, <2>2, <2>3 DEF MoveOf
  <2>5. StepMoves
    BY <1>2, <2>4 DEF StepMoves, Moves, Arrows
  <2>6. turning' = turning
    BY <1>9 DEF PutPolling
  <2> QED BY <1>6, <2>5, <2>6 DEF PlaceInv, Singly
<1>10. CASE wnext[w] = "SLEEPING" /\ PutSleeping(c)
  <2>1. /\ At'["sleeping"] = At["sleeping"] \cup {c}
        /\ \A u \in {"free", "idling", "polling", "sleeping", "turning"} \ {"sleeping"} :
             At'[u] = At[u]
    BY <1>10, EachSpot, EachSpotNext DEF PutSleeping
  <2>2. \A u \in Spots \ {"worker", "sleeping"} : At'[u] = At[u]
    BY <1>5, <2>1
  <2>3. /\ \A d \in Context \ {c} : type'[d] = type[d]
        /\ type'[c] \in TypesOf("sleeping")
    BY <1>2, <1>4, <1>10 DEF PutSleeping, SetType, TypesOf
  <2>4. MoveOf({c}, "worker", "sleeping")
    BY <1>3, <2>1, <2>2, <2>3 DEF MoveOf
  <2>5. StepMoves
    BY <1>2, <2>4 DEF StepMoves, Moves, Arrows
  <2>6. turning' = turning
    BY <1>10 DEF PutSleeping
  <2> QED BY <1>6, <2>5, <2>6 DEF PlaceInv, Singly
<1>11. CASE wnext[w] = "CLOSE" /\ PutFree(c)
  <2>1. /\ At'["free"] = At["free"] \cup {c}
        /\ \A u \in {"free", "idling", "polling", "sleeping", "turning"} \ {"free"} :
             At'[u] = At[u]
    BY <1>11, EachSpot, EachSpotNext DEF PutFree
  <2>2. \A u \in Spots \ {"worker", "free"} : At'[u] = At[u]
    BY <1>5, <2>1
  <2>3. /\ \A d \in Context \ {c} : type'[d] = type[d]
        /\ type'[c] \in TypesOf("free")
    BY <1>2, <1>4, <1>11 DEF PutFree, SetType, TypesOf
  <2>4. MoveOf({c}, "worker", "free")
    BY <1>3, <2>1, <2>2, <2>3 DEF MoveOf
  <2>5. StepMoves
    BY <1>2, <2>4 DEF StepMoves, Moves, Arrows
  <2>6. turning' = turning
    BY <1>11 DEF PutFree
  <2> QED BY <1>6, <2>5, <2>6 DEF PlaceInv, Singly
<1>12. wnext[w] \in {"POLLING", "POLLING_OUT"} =>
          \E in \in BOOLEAN : PutPolling(c, in)
  BY DEF Put
<1> QED BY <1>7, <1>8, <1>9, <1>10, <1>11, <1>12 DEF Put

\* The scan thread takes contexts off the polling list.
LEMMA ScanPollingMoves ==
  ASSUME PlaceInv, ScanPolling
  PROVE  StepMoves /\ Singly' /\ ScanHands'
<1>1. PICK moved \in SUBSET polling : /\ polling' = polling \ moved
                                      /\ Switch(moved)
                                      /\ temp_list' \in SetToSeqs(moved)
  BY DEF ScanPolling
<1>2. moved \subseteq Context /\ IsFiniteSet(moved)
  <2>1. moved \in SUBSET Context /\ IsFiniteSet(Context)
    BY PoolAssumption DEF PlaceInv, TypeOK
  <2> QED BY <2>1, FS_Subset
<1>3. ToSet(temp_list') = moved /\ IsInjective(temp_list')
  BY <1>1, <1>2, OrderOfSet
<1>4. temp_list = <<>> /\ ToSet(temp_list) = {}
  BY DEF ScanPolling, PlaceInv, ScanHands, ToSet
<1>5. MoveOf(moved, "polling", "scan")
  <2>1. /\ moved \subseteq At["polling"]
        /\ At'["polling"] = At["polling"] \ moved
        /\ At'["scan"] = At["scan"] \cup moved
    BY <1>1, <1>3, <1>4, EachSpot, EachSpotNext
  <2>2. \A u \in Spots \ {"polling", "scan"} : At'[u] = At[u]
    BY EachSpot, EachSpotNext DEF ScanPolling, wakeVars, Spots
  <2>3. /\ \A d \in Context \ moved : type'[d] = type[d]
        /\ \A d \in moved : type'[d] \in TypesOf("scan")
    BY <1>1, <1>2 DEF Switch, TypesOf
  <2> QED BY <2>1, <2>2, <2>3 DEF MoveOf
<1>6. StepMoves
  BY <1>2, <1>5 DEF StepMoves, Moves, Arrows
<1> QED BY <1>3, <1>6 DEF ScanPolling, PlaceInv, Singly, ScanHands

\* And all that are idle.
LEMMA ScanIdlingMoves ==
  ASSUME PlaceInv, ScanIdling
  PROVE  StepMoves /\ Singly' /\ ScanHands'
<1>1. PICK s \in SetToSeqs(idling) : temp_list' = temp_list \o s
  BY DEF ScanIdling
<1>2. idling \subseteq Context /\ IsFiniteSet(idling)
  <2>1. idling \in SUBSET Context /\ IsFiniteSet(Context)
    BY PoolAssumption DEF PlaceInv, TypeOK
  <2> QED BY <2>1, FS_Subset
<1>3. s \in Seq(Context) /\ ToSet(s) = idling /\ IsInjective(s)
  <2>1. s \in Seq(idling) /\ ToSet(s) = idling /\ IsInjective(s)
    BY <1>2, OrderOfSet
  <2> QED BY <1>2, <2>1
<1>4. /\ temp_list \in Seq(Context) /\ IsInjective(temp_list)
      /\ ToSet(temp_list) \cap idling = {}
  BY EachSpot DEF PlaceInv, TypeOK, Singly, Partition, Spots
<1>5. /\ ToSet(temp_list \o s) = ToSet(temp_list) \cup idling
      /\ IsInjective(temp_list \o s)
  BY <1>3, <1>4, JoinLists
<1>6. /\ ToSet(temp_list') = ToSet(temp_list) \cup idling
      /\ IsInjective(temp_list')
  BY <1>1, <1>5
<1>7. MoveOf(idling, "idling", "scan")
  <2>1. /\ idling \subseteq At["idling"]
        /\ At'["idling"] = At["idling"] \ idling
        /\ At'["scan"] = At["scan"] \cup idling
    BY <1>6, EachSpot, EachSpotNext DEF ScanIdling
  <2>2. \A u \in Spots \ {"idling", "scan"} : At'[u] = At[u]
    BY EachSpot, EachSpotNext DEF ScanIdling, wakeVars, Spots
  <2>3. /\ \A d \in Context \ idling : type'[d] = type[d]
        /\ \A d \in idling : type'[d] \in TypesOf("scan")
    BY <1>2 DEF ScanIdling, Switch, TypesOf
  <2> QED BY <2>1, <2>2, <2>3 DEF MoveOf
<1>8. StepMoves
  BY <1>2, <1>7 DEF StepMoves, Moves, Arrows
<1> QED BY <1>6, <1>8 DEF ScanIdling, PlaceInv, Singly, ScanHands

\* It puts them all on the turning list.
LEMMA ScanTurningMoves ==
  ASSUME PlaceInv, ScanTurning
  PROVE  StepMoves /\ Singly' /\ ScanHands'
<1> DEFINE D == ToSet(temp_list)
<1>1. /\ turning \in Seq(Context) /\ temp_list \in Seq(Context)
      /\ IsInjective(turning) /\ IsInjective(temp_list)
      /\ ToSet(turning) \cap D = {}
  BY EachSpot DEF PlaceInv, TypeOK, Singly, Partition, Spots
<1>2. /\ ToSet(turning \o temp_list) = ToSet(turning) \cup D
      /\ IsInjective(turning \o temp_list)
  BY <1>1, JoinLists
<1>3. /\ ToSet(turning') = ToSet(turning) \cup D /\ IsInjective(turning')
      /\ temp_list' = <<>> /\ ToSet(temp_list') = {} /\ IsInjective(temp_list')
  <2>1. turning' = turning \o temp_list /\ temp_list' = <<>>
    BY DEF ScanTurning
  <2>2. ToSet(<<>>) = {} /\ IsInjective(<<>>)
    BY DEF ToSet, IsInjective
  <2> QED BY <1>2, <2>1, <2>2
<1>4. D \subseteq Context
  BY EachSpot DEF PlaceInv, Partition, Spots
<1>5. MoveOf(D, "scan", "turning")
  <2>1. /\ D \subseteq At["scan"]
        /\ At'["scan"] = At["scan"] \ D
        /\ At'["turning"] = At["turning"] \cup D
    BY <1>3, EachSpot, EachSpotNext
  <2>2. \A u \in Spots \ {"scan", "turning"} : At'[u] = At[u]
    BY EachSpot, EachSpotNext DEF ScanTurning, wakeVars, Spots
  <2>3. /\ \A d \in Context \ D : type'[d] = type[d]
        /\ \A d \in D : type'[d] \in TypesOf("turning")
    BY <1>4 DEF ScanTurning, TypesOf
  <2> QED BY <2>1, <2>2, <2>3 DEF MoveOf
<1>6. StepMoves
  BY <1>4, <1>5 DEF StepMoves, Moves, Arrows
<1> QED BY <1>3, <1>6 DEF ScanTurning, PlaceInv, Singly, ScanHands

\* Every step is a move that the scheduler knows.
LEMMA NextMoves ==
  ASSUME PlaceInv, [Next]_vars
  PROVE  StepMoves /\ Singly' /\ ScanHands'
<1>1. CASE \/ \E c \in Context : Arrive(c) \/ PickSleeper(c)
           \/ Wait
           \/ \E w \in Worker : Process(w)
           \/ UNCHANGED vars
  BY <1>1, QuietMoves
<1>2. CASE \E l \in Listener : Listen(l)
  BY <1>2, GetFreeMoves, ConstructMoves, AcceptMoves, RejectMoves DEF Listen
<1>3. CASE Look \/ SwitchEvent
  BY <1>3, LookMoves, SwitchEventMoves
<1>4. CASE Scan
  BY <1>4, ScanPollingMoves, ScanIdlingMoves, ScanTurningMoves DEF Scan
<1>5. CASE \E w \in Worker : Take(w) \/ Put(w)
  BY <1>5, TakeMoves, PutMoves
<1>6. CASE \E k \in Caller : Call(k)
  BY <1>6, SignalMoves, ActivateMoves, SwitchCalledMoves DEF Call
<1>7. CASE WakeSleeper \/ SwitchWoken
  BY <1>7, WakeSleeperMoves, SwitchWokenMoves
<1> QED
  BY <1>1, <1>2, <1>3, <1>4, <1>5, <1>6, <1>7 DEF Next, Epoll, Work, Wake

-----------------------------------------------------------------------------
(* Types.                                                                  *)

\* Initially all contexts are free.
LEMMA InitPlaces == Init => PlaceInv
<1> SUFFICES ASSUME Init
             PROVE  PlaceInv
  OBVIOUS
<1>1. TypeOK
  BY PoolAssumption DEF Init, TypeOK, ContextOrNone, Types, Results
<1>2. /\ ToSet(turning) = {} /\ ToSet(temp_list) = {}
      /\ IsInjective(turning) /\ IsInjective(temp_list)
  BY DEF Init, ToSet, IsInjective
<1>3. /\ Held(lctx) = {} /\ Held(wctx) = {} /\ Held(kctx) = {}
      /\ Alone(lctx) /\ Alone(wctx) /\ Alone(kctx)
  BY DEF Init, Held, Range, Alone
<1>4. At["free"] = Context /\ \A s \in Spots \ {"free"} : At[s] = {}
  BY <1>2, <1>3, EachSpot DEF Init, Spots
<1>5. Partition
  BY <1>4 DEF Partition, Spots
<1>6. SpotTypes
  BY <1>4 DEF SpotTypes, TypesOf, Init
<1> QED BY <1>1, <1>2, <1>3, <1>5, <1>6 DEF PlaceInv, Singly, ScanHands, Init

\* The lists, the types and the epoll set, which a put changes.
ListTypes ==
  /\ type \in [Context -> Types]
  /\ free \subseteq Context /\ idling \subseteq Context
  /\ polling \subseteq Context /\ reading \subseteq polling
  /\ sleeping \subseteq Context
  /\ turning \in Seq(Context)
  /\ waiting \subseteq Context /\ ready \subseteq Context
  /\ registered \subseteq Context /\ armed \subseteq registered

\* A put changes one list and that context's type.
LEMMA PutTypes ==
  ASSUME TypeOK, NEW c \in Context,
         \/ \E in \in BOOLEAN : PutPolling(c, in)
         \/ PutIdling(c) \/ PutSleeping(c)
         \/ PutTurning(c) \/ PutFree(c)
  PROVE  ListTypes'
<1>1. ListTypes
  BY DEF TypeOK, ListTypes
<1>2. CASE \E in \in BOOLEAN : PutPolling(c, in)
  <2>1. PICK in \in BOOLEAN : PutPolling(c, in)
    BY <1>2
  <2>2. registered \subseteq registered' /\ registered' \subseteq Context
    BY <1>1, <2>1 DEF PutPolling, Register, ListTypes
  <2>3. waiting' \subseteq Context /\ ready' \subseteq Context /\ armed' \subseteq registered'
    BY <1>1, <2>1 DEF PutPolling, Register, ListTypes
  <2>4. polling' = polling \cup {c} /\ reading' \subseteq reading \cup {c}
    BY <2>1 DEF PutPolling
  <2>5. type' \in [Context -> Types]
    BY <1>1, <2>1 DEF PutPolling, SetType, ListTypes, Types
  <2> QED BY <1>1, <2>1, <2>2, <2>3, <2>4, <2>5 DEF PutPolling, ListTypes
<1>3. CASE PutIdling(c)
  BY <1>1, <1>3 DEF PutIdling, SetType, ListTypes, Types, epollVars
<1>4. CASE PutSleeping(c)
  BY <1>1, <1>4 DEF PutSleeping, SetType, ListTypes, Types, epollVars
<1>5. CASE PutTurning(c)
  BY <1>1, <1>5 DEF PutTurning, SetType, ListTypes, Types, epollVars
<1>6. CASE PutFree(c)
  BY <1>1, <1>6 DEF PutFree, SetType, ListTypes, Types
<1> QED BY <1>2, <1>3, <1>4, <1>5, <1>6

\* The rest.
HandTypes ==
  /\ open \subseteq Context
  /\ temp_list \in Seq(Context)
  /\ events \subseteq Context /\ ectx \in ContextOrNone
  /\ spc \in {"polling", "idling", "turning"}
  /\ lctx \in [Listener -> ContextOrNone]
  /\ wctx \in [Worker -> ContextOrNone]
  /\ wnext \in [Worker -> Results \cup {"get", "process"}]
  /\ \A w \in Worker : wctx[w] = NoContext <=> wnext[w] = "get"
  /\ kctx \in [Caller -> ContextOrNone]
  /\ asleep \subseteq Context /\ vctx \in ContextOrNone
  /\ vpc \in {"get", "sleeping", "put"}
  /\ vctx = NoContext <=> vpc = "get"

\* TypeOK in two parts: the contexts' lists and types, and the threads' hands.
LEMMA TypeParts == TypeOK <=> ListTypes /\ HandTypes
BY DEF TypeOK, ListTypes, HandTypes

\* The listeners keep the types.
LEMMA ListenTypes ==
  ASSUME TypeOK, NEW l \in Listener, Listen(l)
  PROVE  TypeOK'
<1>1. ListTypes /\ HandTypes
  BY TypeParts
<1>2. CASE GetFree(l)
  <2>1. ListTypes'
    BY <1>1, <1>2 DEF GetFree, ListTypes, epollVars
  <2>2. HandTypes'
    BY <1>1, <1>2 DEF GetFree, ListTypes, HandTypes, scanVars, wakeVars, ContextOrNone
  <2> QED BY <2>1, <2>2, TypeParts DEF TypeOK, ListTypes, HandTypes
<1>3. CASE Construct(l)
  <2>1. lctx[l] \in Context
    BY <1>1, <1>3 DEF Construct, HandTypes, ContextOrNone
  <2>2. ListTypes'
    BY <1>1, <1>3, <2>1 DEF Construct, ListTypes, SetType, Types, listVars, epollVars
  <2>3. HandTypes'
    BY <1>1, <1>3, <2>1 DEF Construct, HandTypes, scanVars, wakeVars
  <2> QED BY <2>2, <2>3 DEF TypeOK, ListTypes, HandTypes
<1>4. CASE Accept(l)
  <2>1. lctx[l] \in Context
    BY <1>1, <1>4 DEF Accept, HandTypes, ContextOrNone
  <2>2. ListTypes'
    BY <1>4, <2>1, PutTypes DEF Accept
  <2>3. HandTypes'
    BY <1>1, <1>4 DEF Accept, HandTypes, scanVars, wakeVars, ContextOrNone
  <2> QED BY <2>2, <2>3 DEF TypeOK, ListTypes, HandTypes
<1>5. CASE Reject(l)
  <2>1. lctx[l] \in Context
    BY <1>1, <1>5 DEF Reject, HandTypes, ContextOrNone
  <2>2. ListTypes'
    BY <1>5, <2>1, PutTypes DEF Reject
  <2>3. HandTypes'
    BY <1>1, <1>5 DEF Reject, HandTypes, scanVars, wakeVars, ContextOrNone
  <2> QED BY <2>2, <2>3 DEF TypeOK, ListTypes, HandTypes
<1> QED BY <1>2, <1>3, <1>4, <1>5 DEF Listen

\* So does the epoll thread.
LEMMA EpollTypes ==
  ASSUME TypeOK, Epoll \/ \E c \in Context : Arrive(c)
  PROVE  TypeOK'
<1>1. ListTypes /\ HandTypes
  BY TypeParts
<1>2. ASSUME NEW c \in Context, Arrive(c)
      PROVE  TypeOK'
  <2>1. ListTypes'
    BY <1>1, <1>2 DEF Arrive, ListTypes, listVars
  <2>2. HandTypes'
    BY <1>1, <1>2 DEF Arrive, HandTypes, scanVars, wakeVars
  <2> QED BY <2>1, <2>2 DEF TypeOK, ListTypes, HandTypes
<1>3. CASE Wait
  <2>1. ListTypes'
    BY <1>1, <1>3 DEF Wait, ListTypes, listVars
  <2>2. HandTypes'
    BY <1>1, <1>3 DEF Wait, ListTypes, HandTypes, scanVars, wakeVars
  <2> QED BY <2>1, <2>2 DEF TypeOK, ListTypes, HandTypes
<1>4. CASE Look
  <2>1. PICK c \in events :
          /\ events' = events \ {c}
          /\ \/ /\ Switch({c}) /\ polling' = polling \ {c} /\ ectx' = c
                /\ reading' = reading \ {c}
             \/ UNCHANGED <<polling, reading, type, ectx>>
    BY <1>4 DEF Look
  <2>2. ListTypes'
    BY <1>1, <1>4, <2>1 DEF Look, ListTypes, Switch, Types, epollVars
  <2>3. HandTypes'
    BY <1>1, <1>4, <2>1 DEF Look, HandTypes, scanVars, wakeVars, ContextOrNone
  <2> QED BY <2>2, <2>3 DEF TypeOK, ListTypes, HandTypes
<1>5. CASE SwitchEvent
  <2>1. ectx \in Context
    BY <1>1, <1>5 DEF SwitchEvent, HandTypes, ContextOrNone
  <2>2. ListTypes'
    BY <1>5, <2>1, PutTypes DEF SwitchEvent
  <2>3. HandTypes'
    BY <1>1, <1>5 DEF SwitchEvent, HandTypes, scanVars, wakeVars, ContextOrNone
  <2> QED BY <2>2, <2>3 DEF TypeOK, ListTypes, HandTypes
<1> QED BY <1>2, <1>3, <1>4, <1>5 DEF Epoll

\* So does the scan thread.
LEMMA ScanTypes ==
  ASSUME TypeOK, Scan
  PROVE  TypeOK'
<1>1. ListTypes /\ HandTypes
  BY TypeParts
<1>2. CASE ScanPolling
  <2>1. PICK late \in SUBSET (polling \cap waiting) :
          /\ Delete(late \cap registered)
          /\ polling' = polling \ ((polling \ waiting) \cup (late \cap registered))
          /\ reading' = reading \ ((polling \ waiting) \cup (late \cap registered))
          /\ Switch((polling \ waiting) \cup (late \cap registered))
          /\ temp_list' \in SetToSeqs((polling \ waiting) \cup (late \cap registered))
    BY <1>2 DEF ScanPolling
  <2>2. temp_list' \in Seq(Context)
    <3> DEFINE moved == (polling \ waiting) \cup (late \cap registered)
    <3>1. moved \in SUBSET Context
      BY <1>1 DEF ListTypes
    <3>2. IsFiniteSet(moved)
      BY <3>1, PoolAssumption, FS_Subset
    <3>3. temp_list' \in Seq(moved)
      BY <2>1, <3>2, OrderOfSet
    <3> QED BY <3>1, <3>3
  <2>3. ListTypes'
    <3>1. UNCHANGED <<free, idling, sleeping, turning>>
      BY <1>2 DEF ScanPolling
    <3>2. type' \in [Context -> Types]
      BY <1>1, <2>1 DEF ListTypes, Switch, Types
    <3> QED BY <1>1, <2>1, <3>1, <3>2 DEF ListTypes, Delete
  <2>4. HandTypes'
    BY <1>1, <1>2, <2>2 DEF ScanPolling, HandTypes, wakeVars
  <2> QED BY <2>3, <2>4 DEF TypeOK, ListTypes, HandTypes
<1>3. CASE ScanIdling
  <2>1. PICK s \in SetToSeqs(idling) : temp_list' = temp_list \o s
    BY <1>3 DEF ScanIdling
  <2>2. temp_list' \in Seq(Context)
    <3>1. idling \in SUBSET Context /\ temp_list \in Seq(Context)
      BY <1>1 DEF ListTypes, HandTypes
    <3>2. IsFiniteSet(idling)
      BY <3>1, PoolAssumption, FS_Subset
    <3>3. s \in Seq(idling)
      BY <3>2, OrderOfSet
    <3>4. s \in Seq(Context)
      BY <3>1, <3>3
    <3> QED BY <2>1, <3>1, <3>4
  <2>3. ListTypes'
    BY <1>1, <1>3 DEF ScanIdling, ListTypes, Switch, Types, epollVars
  <2>4. HandTypes'
    BY <1>1, <1>3, <2>2 DEF ScanIdling, HandTypes, wakeVars
  <2> QED BY <2>3, <2>4 DEF TypeOK, ListTypes, HandTypes
<1>4. CASE ScanTurning
  <2>1. turning' \in Seq(Context) /\ temp_list' \in Seq(Context)
    BY <1>1, <1>4 DEF ScanTurning, ListTypes, HandTypes
  <2>2. ListTypes'
    BY <1>1, <1>4, <2>1 DEF ScanTurning, ListTypes, Types, epollVars
  <2>3. HandTypes'
    BY <1>1, <1>4, <2>1 DEF ScanTurning, HandTypes, wakeVars
  <2> QED BY <2>2, <2>3 DEF TypeOK, ListTypes, HandTypes
<1> QED BY <1>2, <1>3, <1>4 DEF Scan

\* So do the workers.
LEMMA WorkTypes ==
  ASSUME TypeOK, NEW w \in Worker, Work(w)
  PROVE  TypeOK'
<1>1. ListTypes /\ HandTypes
  BY TypeParts
<1>2. CASE Take(w)
  <2>1. Head(turning) \in Context /\ Tail(turning) \in Seq(Context)
    BY <1>1, <1>2 DEF Take, ListTypes
  <2>2. ListTypes'
    BY <1>1, <1>2, <2>1 DEF Take, ListTypes, epollVars
  <2>3. HandTypes'
    BY <1>1, <1>2, <2>1, PoolAssumption
       DEF Take, HandTypes, scanVars, wakeVars, ContextOrNone, Results
  <2> QED BY <2>2, <2>3 DEF TypeOK, ListTypes, HandTypes
<1>3. CASE Process(w)
  <2>1. wctx[w] \in Context /\ wctx[w] # NoContext
    BY <1>1, <1>3 DEF Process, HandTypes, ContextOrNone
  <2>2. ListTypes'
    BY <1>1, <1>3, <2>1 DEF Process, ListTypes, listVars
  <2>3. PICK r \in Results : wnext' = [wnext EXCEPT ![w] = r]
    BY <1>3 DEF Process
  <2>4. /\ wnext' \in [Worker -> Results \cup {"get", "process"}]
        /\ \A x \in Worker : wctx'[x] = NoContext <=> wnext'[x] = "get"
    BY <1>1, <1>3, <2>1, <2>3 DEF Process, HandTypes, Results
  <2>5. /\ open' \subseteq Context /\ asleep' \subseteq Context
        /\ UNCHANGED <<temp_list, events, ectx, spc, lctx, wctx, kctx, vctx, vpc>>
    BY <1>1, <1>3, <2>1 DEF Process, HandTypes, scanVars
  <2>6. HandTypes'
    BY <1>1, <2>4, <2>5 DEF HandTypes
  <2> QED BY <2>2, <2>6 DEF TypeOK, ListTypes, HandTypes
<1>4. CASE Put(w)
  <2>1. wctx[w] \in Context
    BY <1>1, <1>4 DEF Put, HandTypes, ContextOrNone
  <2>2. ListTypes'
    BY <1>4, <2>1, PutTypes DEF Put
  <2>3. HandTypes'
    BY <1>1, <1>4 DEF Put, HandTypes, scanVars, wakeVars, ContextOrNone
  <2> QED BY <2>2, <2>3 DEF TypeOK, ListTypes, HandTypes
<1> QED BY <1>2, <1>3, <1>4 DEF Work

\* So do the callers.
LEMMA CallTypes ==
  ASSUME TypeOK, NEW k \in Caller, Call(k)
  PROVE  TypeOK'
<1>1. ListTypes /\ HandTypes
  BY TypeParts
<1>2. CASE Signal(k)
  <2>1. ListTypes'
    BY <1>1, <1>2 DEF Signal, ListTypes, Switch, Types, epollVars
  <2>2. HandTypes'
    BY <1>1, <1>2 DEF Signal, HandTypes, scanVars, wakeVars, ContextOrNone
  <2> QED BY <2>1, <2>2 DEF TypeOK, ListTypes, HandTypes
<1>3. CASE Activate(k)
  <2>1. ListTypes'
    BY <1>1, <1>3 DEF Activate, ListTypes, Switch, Types, epollVars
  <2>2. HandTypes'
    BY <1>1, <1>3 DEF Activate, HandTypes, scanVars, wakeVars, ContextOrNone
  <2> QED BY <2>1, <2>2 DEF TypeOK, ListTypes, HandTypes
<1>4. CASE SwitchCalled(k)
  <2>1. kctx[k] \in Context
    BY <1>1, <1>4 DEF SwitchCalled, HandTypes, ContextOrNone
  <2>2. ListTypes'
    BY <1>4, <2>1, PutTypes DEF SwitchCalled
  <2>3. HandTypes'
    BY <1>1, <1>4 DEF SwitchCalled, HandTypes, scanVars, wakeVars, ContextOrNone
  <2> QED BY <2>2, <2>3 DEF TypeOK, ListTypes, HandTypes
<1> QED BY <1>2, <1>3, <1>4 DEF Call

\* So does the waker.
LEMMA WakeTypes ==
  ASSUME TypeOK, Wake
  PROVE  TypeOK'
<1>1. ListTypes /\ HandTypes
  BY TypeParts
<1>2. ASSUME NEW c \in Context, PickSleeper(c)
      PROVE  TypeOK'
  <2>1. ListTypes'
    BY <1>1, <1>2 DEF PickSleeper, ListTypes, listVars, epollVars
  <2>2. HandTypes'
    BY <1>1, <1>2, PoolAssumption DEF PickSleeper, HandTypes, scanVars, ContextOrNone
  <2> QED BY <2>1, <2>2 DEF TypeOK, ListTypes, HandTypes
<1>3. CASE WakeSleeper
  <2>1. ListTypes'
    BY <1>1, <1>3 DEF WakeSleeper, ListTypes, epollVars
  <2>2. HandTypes'
    BY <1>1, <1>3 DEF WakeSleeper, HandTypes, scanVars
  <2> QED BY <2>1, <2>2 DEF TypeOK, ListTypes, HandTypes
<1>4. CASE SwitchWoken
  <2>1. vctx \in Context
    BY <1>1, <1>4 DEF SwitchWoken, HandTypes, ContextOrNone
  <2>2. ListTypes'
    BY <1>4, <2>1, PutTypes DEF SwitchWoken
  <2>3. HandTypes'
    BY <1>1, <1>4 DEF SwitchWoken, HandTypes, scanVars, ContextOrNone
  <2> QED BY <2>2, <2>3 DEF TypeOK, ListTypes, HandTypes
<1> QED BY <1>2, <1>3, <1>4 DEF Wake

\* So does every step.
LEMMA NextTypes ==
  ASSUME TypeOK, [Next]_vars
  PROVE  TypeOK'
<1>1. CASE UNCHANGED vars
  BY <1>1 DEF vars, listVars, epollVars, scanVars, wakeVars, TypeOK
<1> QED
  BY <1>1, ListenTypes, EpollTypes, ScanTypes, WorkTypes, CallTypes, WakeTypes DEF Next

-----------------------------------------------------------------------------
(* The theorems.                                                           *)

\* Every spot, every type and the scan thread's list, in every state.
THEOREM PlacesCorrect == Spec => []PlaceInv
<1>1. ASSUME PlaceInv, [Next]_vars
      PROVE  PlaceInv'
  <2>1. TypeOK'
    BY <1>1, NextTypes DEF PlaceInv
  <2>2. StepMoves /\ Singly' /\ ScanHands'
    BY <1>1, NextMoves
  <2>3. PICK a \in Arrows : Moves(a[1], a[2])
    BY <2>2 DEF StepMoves
  <2>4. a[1] \in Spots /\ a[2] \in Spots
    BY DEF Arrows, Spots
  <2>5. Partition' /\ SpotTypes'
    <3>1. PICK D \in SUBSET Context : MoveOf(D, a[1], a[2])
      BY <2>3 DEF Moves
    <3> QED BY <1>1, <2>4, <3>1, MoveKeeps DEF PlaceInv
  <2> QED BY <2>1, <2>2, <2>5 DEF PlaceInv
<1> QED BY <1>1, InitPlaces, PTL DEF Spec

\* TypeOK for any number of contexts, workers, listeners and callers.
THEOREM PoolTypesCorrect == Spec => []TypeOK
<1>1. PlaceInv => TypeOK
  BY DEF PlaceInv
<1> QED BY <1>1, PlacesCorrect, PTL

\* contexts_pool.c gives no context to two threads and loses none.
THEOREM ContextsHaveOnePlace == Spec => []OnePlace
<1>1. PlaceInv => OnePlace
  BY OnePlaceParts DEF PlaceInv
<1> QED BY <1>1, PlacesCorrect, PTL

\* The type, read under the lock of one list, is right about that list.
THEOREM TypesTell == Spec => []TypeTells
<1>1. PlaceInv => TypeTells
  <2> SUFFICES ASSUME PlaceInv, NEW c \in Context
               PROVE  /\ type[c] = "POLLING" <=> c \in polling
                      /\ type[c] = "IDLING" <=> c \in idling
                      /\ c \in sleeping => type[c] = "SLEEPING"
                      /\ c \in ToSet(turning) \cup Held(wctx) => type[c] = "TURNING"
                      /\ c \in free => type[c] = "FREE"
    BY DEF TypeTells
  <2>1. /\ \A d \in At["polling"] : type[d] = "POLLING"
        /\ \A d \in At["idling"] : type[d] = "IDLING"
        /\ \A d \in At["sleeping"] : type[d] = "SLEEPING"
        /\ \A d \in At["turning"] \cup At["worker"] : type[d] = "TURNING"
        /\ \A d \in At["free"] : type[d] = "FREE"
    BY DEF PlaceInv, SpotTypes, TypesOf, Spots
  <2> QED BY <2>1, SpotOfType, EachSpot
<1> QED BY <1>1, PlacesCorrect, PTL

-----------------------------------------------------------------------------
(* The pool implements Scheduler.                                          *)

\* The place in Scheduler of the contexts on a spot.
PlaceOf(s) ==
  CASE s = "free"     -> "free"
    [] s = "listener" -> "accepted"
    [] s = "worker"   -> "running"
    [] s \in {"idling", "polling", "sleeping"} -> "parked"
    [] s \in {"turning", "epoll", "scan", "caller", "waker"} -> "runnable"

\* Place says so.
LEMMA PlaceOfSpot ==
  PlaceInv => \A s \in Spots : \A c \in At[s] : Place(c) = PlaceOf(s)
<1> SUFFICES ASSUME PlaceInv, NEW s \in Spots, NEW c \in At[s]
             PROVE  Place(c) = PlaceOf(s)
  OBVIOUS
<1>1. /\ c \in Context /\ c # NoContext
      /\ \A t \in Spots \ {s} : c \notin At[t]
  BY Elsewhere, PoolAssumption DEF PlaceInv
<1>2. Served(c) <=> s = "worker"
  <2>1. DOMAIN wctx = Worker
    BY DEF PlaceInv, TypeOK
  <2>2. Served(c) <=> c \in Held(wctx)
    BY <1>1, <2>1 DEF Served, Held, Range
  <2> QED BY <1>1, <2>2, EachSpot DEF Spots
<1>3. (\E l \in Listener : lctx[l] = c) <=> s = "listener"
  <2>1. DOMAIN lctx = Listener
    BY DEF PlaceInv, TypeOK
  <2>2. (\E l \in Listener : lctx[l] = c) <=> c \in Held(lctx)
    BY <1>1, <2>1 DEF Held, Range
  <2> QED BY <1>1, <2>2, EachSpot DEF Spots
<1>4. /\ c \in free <=> s = "free"
      /\ c \in idling \cup polling \cup sleeping
           <=> s \in {"idling", "polling", "sleeping"}
  BY <1>1, EachSpot DEF Spots
<1> QED BY <1>2, <1>3, <1>4 DEF Place, PlaceOf, Spots

\* After a step too.
LEMMA PlaceOfSpotNext ==
  (PlaceInv => \A s \in Spots : \A c \in At[s] : Place(c) = PlaceOf(s))'
BY PlaceOfSpot, PTL

\* A move on the map is a move of the scheduler, or none.
LEMMA MovesMap ==
  ASSUME PlaceInv, PlaceInv', StepMoves
  PROVE  [Abstract!Next]_[c \in Context |-> Place(c)]
<1> DEFINE place == [c \in Context |-> Place(c)]
<1>1. PICK a \in Arrows : Moves(a[1], a[2])
  BY DEF StepMoves
<1> DEFINE s == a[1]
           t == a[2]
<1>2. s \in Spots /\ t \in Spots
  BY DEF Arrows, Spots
<1>3. PICK D \in SUBSET Context :
        /\ MoveOf(D, s, t)
        /\ "scan" \in {s, t} \/ \E c \in Context : D \subseteq {c}
  BY <1>1 DEF Moves
<1>4. \A c \in D : place[c] = PlaceOf(s) /\ place'[c] = PlaceOf(t)
  <2> SUFFICES ASSUME NEW c \in D
               PROVE  Place(c) = PlaceOf(s) /\ Place(c)' = PlaceOf(t)
    OBVIOUS
  <2>1. c \in At[s] /\ c \in At'[t]
    BY <1>2, <1>3 DEF MoveOf
  <2>2. Place(c) = PlaceOf(s)
    BY <1>2, <2>1, PlaceOfSpot
  <2>3. (\A u \in Spots : \A d \in At[u] : Place(d) = PlaceOf(u))'
    BY PlaceOfSpotNext
  <2>4. Place(c)' = PlaceOf(t)
    BY <1>2, <2>1, <2>3
  <2> QED BY <2>2, <2>4
<1>5. \A c \in Context \ D : place'[c] = place[c]
  <2> SUFFICES ASSUME NEW c \in Context \ D
               PROVE  Place(c)' = Place(c)
    OBVIOUS
  <2>1. PICK u \in Spots : c \in At[u]
    BY DEF PlaceInv, Partition
  <2>2. c \in At'[u]
    BY <1>3, <2>1 DEF MoveOf
  <2>3. (\A v \in Spots : \A d \in At[v] : Place(d) = PlaceOf(v))'
    BY PlaceOfSpotNext
  <2> QED BY <2>1, <2>2, <2>3, PlaceOfSpot
<1>6. place' = [c \in Context |-> IF c \in D THEN PlaceOf(t) ELSE place[c]]
  BY <1>4, <1>5
<1>7. CASE D = {} \/ PlaceOf(s) = PlaceOf(t)
  BY <1>4, <1>6, <1>7
<1>8. CASE D # {} /\ PlaceOf(s) # PlaceOf(t)
  <2>1. Abstract!Move(D, PlaceOf(s), PlaceOf(t))
    BY <1>4, <1>6, <1>8 DEF Abstract!Move
  <2>2. CASE PlaceOf(s) = "parked"
    <3>1. PlaceOf(t) = "runnable"
      BY <1>8, <2>2 DEF Arrows, PlaceOf
    <3> QED BY <2>1, <2>2, <3>1 DEF Abstract!Next, Abstract!Rouse
  <2>3. CASE PlaceOf(s) # "parked"
    <3>1. /\ "scan" \notin {s, t}
          /\ <<PlaceOf(s), PlaceOf(t)>> \in
               {<<"free", "accepted">>, <<"accepted", "parked">>,
                <<"accepted", "free">>, <<"runnable", "running">>,
                <<"running", "runnable">>, <<"running", "parked">>,
                <<"running", "free">>}
      BY <1>8, <2>3 DEF Arrows, PlaceOf
    <3>2. PICK c \in Context : D = {c}
      BY <1>3, <1>8, <3>1
    <3>3. Abstract!Move({c}, PlaceOf(s), PlaceOf(t))
      BY <2>1, <3>2
    <3>4. Abstract!Accept(c) \/ Abstract!Run(c)
      BY <3>1, <3>3 DEF Abstract!Accept, Abstract!Run
    <3> QED BY <3>4 DEF Abstract!Next
  <2> QED BY <2>2, <2>3
<1> QED BY <1>7, <1>8

\* The contexts pool implements the scheduler.
THEOREM PoolIsScheduler == Spec => IsScheduler
<1>1. Init => Abstract!Init
  <2> SUFFICES ASSUME Init
               PROVE  \A c \in Context : Place(c) = "free"
    BY DEF Abstract!Init
  <2>1. PlaceInv
    BY InitPlaces
  <2>2. \A c \in Context : c \in At["free"]
    BY EachSpot DEF Init
  <2> QED BY <2>1, <2>2, PlaceOfSpot DEF PlaceOf, Spots
<1>2. PlaceInv /\ PlaceInv' /\ [Next]_vars
        => [Abstract!Next]_[c \in Context |-> Place(c)]
  BY NextMoves, MovesMap
<1> QED BY <1>1, <1>2, PlacesCorrect, PTL DEF Spec, IsScheduler, Abstract!Spec

-----------------------------------------------------------------------------
(* Connections and the epoll set.                                          *)

\* Who has a connection: not a free context, a listener's once it is marked, a
\* worker's until it is closed, all others.  A free context and a listener's
\* are not in the epoll set.
OpenInv ==
  /\ \A c \in free : c \notin open /\ c \notin waiting
  /\ \A l \in Listener : lctx[l] # NoContext =>
       /\ lctx[l] \notin waiting
       /\ lctx[l] \in open <=> type[lctx[l]] = "CONSTRUCTING"
  /\ \A w \in Worker : wnext[w] # "get" =>
       (wctx[w] \in open <=> wnext[w] # "CLOSE")
  /\ Context \ (free \cup Held(lctx) \cup Held(wctx)) \subseteq open

\* What the epoll set has to do with connections, in one invariant.
EpollInv == OpenInv /\ WaitingIsRegistered /\ NoDeafContext

\* What is left alone by those who only move a context that has a connection.
Aside ==
  /\ UNCHANGED <<free, lctx, wctx, wnext, open>>
  /\ \A l \in Listener : lctx[l] # NoContext => type'[lctx[l]] = type[lctx[l]]

\* Such steps keep OpenInv.
LEMMA AsideKeeps ==
  ASSUME OpenInv, Aside, waiting' \subseteq waiting
  PROVE  OpenInv'
BY DEF OpenInv, Aside

\* A listener's context is on no list and in no other hands.
LEMMA Listened ==
  ASSUME PlaceInv, NEW l \in Listener, lctx[l] # NoContext
  PROVE  /\ lctx[l] \in Context
         /\ lctx[l] \in Held(lctx)
         /\ \A s \in Spots \ {"listener"} : lctx[l] \notin At[s]
<1>1. lctx \in [Listener -> ContextOrNone] /\ Alone(lctx)
  BY DEF PlaceInv, TypeOK, Singly
<1>2. lctx[l] \in Held(lctx)
  BY <1>1, DropOne
<1> QED BY <1>2, EachSpot, Elsewhere DEF PlaceInv, Spots

\* A worker's context likewise.
LEMMA Worked ==
  ASSUME PlaceInv, NEW w \in Worker, wctx[w] # NoContext
  PROVE  /\ wctx[w] \in Context
         /\ wctx[w] \in Held(wctx)
         /\ \A s \in Spots \ {"worker"} : wctx[w] \notin At[s]
         /\ \A x \in Worker \ {w} : wctx[x] # wctx[w]
<1>1. wctx \in [Worker -> ContextOrNone] /\ Alone(wctx)
  BY DEF PlaceInv, TypeOK, Singly
<1>2. wctx[w] \in Held(wctx)
  BY <1>1, DropOne
<1>3. \A x \in Worker \ {w} : wctx[x] # wctx[w]
  BY <1>1 DEF Alone
<1> QED BY <1>2, <1>3, EachSpot, Elsewhere DEF PlaceInv, Spots

\* Putting a taken context on the turning list is such a step.
LEMMA TurnAside ==
  ASSUME PlaceInv, NEW c \in Context, PutTurning(c),
         NEW s \in {"epoll", "caller", "waker"}, c \in At[s],
         UNCHANGED <<lctx, wctx, wnext, open>>
  PROVE  Aside
<1>1. ASSUME NEW l \in Listener, lctx[l] # NoContext
      PROVE  type'[lctx[l]] = type[lctx[l]]
  <2>1. lctx[l] \in Context /\ lctx[l] # c
    BY <1>1, Listened DEF Spots
  <2>2. type \in [Context -> Types]
    BY DEF PlaceInv, TypeOK
  <2> QED BY <2>1, <2>2 DEF PutTurning, SetType
<1> QED BY <1>1 DEF Aside, PutTurning

\* Taking contexts off a list is, too.
LEMMA SwitchAside ==
  ASSUME PlaceInv, NEW S \in SUBSET Context, Switch(S),
         NEW s \in {"polling", "idling"}, S \subseteq At[s],
         UNCHANGED <<free, lctx, wctx, wnext, open>>
  PROVE  Aside
<1>1. ASSUME NEW l \in Listener, lctx[l] # NoContext
      PROVE  type'[lctx[l]] = type[lctx[l]]
  <2>1. lctx[l] \in Context /\ lctx[l] \notin S
    BY <1>1, Listened DEF Spots
  <2> QED BY <2>1 DEF Switch
<1> QED BY <1>1 DEF Aside

\* Clients and the epoll thread keep EpollInv.
LEMMA EpollThreadOpen ==
  ASSUME PlaceInv, EpollInv, Epoll \/ \E c \in Context : Arrive(c)
  PROVE  EpollInv'
<1>1. ASSUME NEW c \in Context, Arrive(c)
      PROVE  EpollInv'
  BY <1>1 DEF Arrive, EpollInv, OpenInv, WaitingIsRegistered, NoDeafContext, listVars
<1>2. CASE Wait
  BY <1>2 DEF Wait, EpollInv, OpenInv, WaitingIsRegistered, NoDeafContext, listVars
<1>3. CASE Look
  <2>1. PICK c \in events :
          /\ events' = events \ {c}
          /\ \/ StillPolled(c) /\ Switch({c}) /\ polling' = polling \ {c}
             \/ ~ StillPolled(c) /\ UNCHANGED <<polling, type>>
    BY <1>3 DEF Look
  <2>2. c \in Context
    BY DEF PlaceInv, TypeOK
  <2>3. NoDeafContext'
    <3>1. waiting' = waiting /\ armed' = armed
      BY <1>3 DEF Look, epollVars
    <3>2. CASE StillPolled(c) /\ polling' = polling \ {c}
      BY <2>1, <3>1, <3>2 DEF EpollInv, NoDeafContext
    <3>3. CASE ~ StillPolled(c) /\ polling' = polling
      <4>1. c \notin polling \/ c \notin waiting
        <5>1. c \in polling => type[c] = "POLLING"
          BY EachSpot DEF PlaceInv, SpotTypes, TypesOf, Spots
        <5> QED BY <3>3, <5>1 DEF StillPolled
      <4> QED BY <2>1, <3>1, <3>3, <4>1 DEF EpollInv, NoDeafContext
    <3> QED BY <2>1, <3>2, <3>3
  <2>4. Aside
    <3>1. UNCHANGED <<free, lctx, wctx, wnext, open>>
      BY <1>3 DEF Look
    <3>2. CASE StillPolled(c) /\ Switch({c})
      <4>1. {c} \subseteq At["polling"]
        BY <2>2, <3>2, SpotOfType, EachSpot DEF StillPolled
      <4> QED BY <2>2, <3>1, <3>2, <4>1, SwitchAside
    <3>3. CASE type' = type
      BY <3>1, <3>3 DEF Aside
    <3> QED BY <2>1, <3>2, <3>3
  <2> QED BY <1>3, <2>3, <2>4, AsideKeeps
      DEF Look, epollVars, EpollInv, WaitingIsRegistered
<1>4. CASE SwitchEvent
  <2>1. ectx \in Context /\ ectx \in At["epoll"]
    BY <1>4, EachSpot DEF SwitchEvent, PlaceInv, TypeOK, ContextOrNone
  <2>2. Aside
    BY <1>4, <2>1, TurnAside DEF SwitchEvent
  <2> QED BY <1>4, <2>2, AsideKeeps
      DEF SwitchEvent, PutTurning, epollVars, EpollInv, WaitingIsRegistered, NoDeafContext
<1> QED BY <1>1, <1>2, <1>3, <1>4 DEF Epoll

\* So does the scan thread.
LEMMA ScanOpen ==
  ASSUME PlaceInv, EpollInv, Scan
  PROVE  EpollInv'
<1>1. CASE ScanPolling
  <2>1. PICK gone \in SUBSET registered, moved \in SUBSET polling :
          /\ Delete(gone) /\ gone \subseteq moved
          /\ polling' = polling \ moved /\ Switch(moved)
    <3>1. PICK late \in SUBSET (polling \cap waiting) :
            /\ Delete(late \cap registered)
            /\ polling' = polling \ ((polling \ waiting) \cup (late \cap registered))
            /\ Switch((polling \ waiting) \cup (late \cap registered))
      BY <1>1 DEF ScanPolling
    <3> QED BY <3>1
  <2>2. moved \in SUBSET Context /\ moved \subseteq At["polling"]
    BY EachSpot DEF PlaceInv, TypeOK
  <2>3. Aside
    BY <1>1, <2>1, <2>2, SwitchAside DEF ScanPolling
  <2>4. NoDeafContext'
    BY <1>1, <2>1 DEF ScanPolling, Delete, EpollInv, NoDeafContext
  <2>5. WaitingIsRegistered'
    BY <1>1, <2>1 DEF ScanPolling, Delete, EpollInv, WaitingIsRegistered
  <2> QED BY <2>1, <2>3, <2>4, <2>5, AsideKeeps DEF Delete, EpollInv
<1>2. CASE ScanIdling
  <2>1. idling \in SUBSET Context /\ idling \subseteq At["idling"]
    BY EachSpot DEF PlaceInv, TypeOK
  <2>2. Aside
    BY <1>2, <2>1, SwitchAside DEF ScanIdling
  <2> QED BY <1>2, <2>2, AsideKeeps
      DEF ScanIdling, epollVars, EpollInv, WaitingIsRegistered, NoDeafContext
<1>3. CASE ScanTurning
  <2>1. ASSUME NEW l \in Listener, lctx[l] # NoContext
        PROVE  type'[lctx[l]] = type[lctx[l]]
    <3>1. lctx[l] \in Context /\ lctx[l] \notin ToSet(temp_list)
      BY <2>1, Listened, EachSpot DEF Spots
    <3> QED BY <1>3, <3>1 DEF ScanTurning
  <2>2. Aside
    BY <1>3, <2>1 DEF Aside, ScanTurning
  <2> QED BY <1>3, <2>2, AsideKeeps
      DEF ScanTurning, epollVars, EpollInv, WaitingIsRegistered, NoDeafContext
<1> QED BY <1>1, <1>2, <1>3 DEF Scan

\* So do the callers.
LEMMA CallOpen ==
  ASSUME PlaceInv, EpollInv, NEW k \in Caller, Call(k)
  PROVE  EpollInv'
<1>1. CASE Signal(k)
  <2>1. PICK c \in Context : type[c] = "IDLING" /\ Switch({c})
    BY <1>1 DEF Signal
  <2>2. {c} \subseteq At["idling"]
    BY <2>1, SpotOfType, EachSpot
  <2>3. Aside
    BY <1>1, <2>1, <2>2, SwitchAside DEF Signal
  <2> QED BY <1>1, <2>3, AsideKeeps
      DEF Signal, epollVars, EpollInv, WaitingIsRegistered, NoDeafContext
<1>2. CASE Activate(k)
  <2>1. PICK c \in Context :
          type[c] = "POLLING" /\ Switch({c}) /\ polling' = polling \ {c}
    BY <1>2 DEF Activate
  <2>2. {c} \subseteq At["polling"]
    BY <2>1, SpotOfType, EachSpot
  <2>3. Aside
    BY <1>2, <2>1, <2>2, SwitchAside DEF Activate
  <2> QED BY <1>2, <2>1, <2>3, AsideKeeps
      DEF Activate, epollVars, EpollInv, WaitingIsRegistered, NoDeafContext
<1>3. CASE SwitchCalled(k)
  <2>1. kctx[k] \in Context /\ kctx[k] \in At["caller"]
    <3>1. /\ kctx \in [Caller -> ContextOrNone] /\ kctx[k] # NoContext
          /\ Alone(kctx)
      BY <1>3 DEF SwitchCalled, PlaceInv, TypeOK, Singly
    <3>2. kctx[k] \in Held(kctx)
      BY <3>1, DropOne
    <3> QED BY <3>1, <3>2, EachSpot DEF ContextOrNone
  <2>2. Aside
    BY <1>3, <2>1, TurnAside DEF SwitchCalled
  <2> QED BY <1>3, <2>2, AsideKeeps
      DEF SwitchCalled, PutTurning, epollVars, EpollInv, WaitingIsRegistered, NoDeafContext
<1> QED BY <1>1, <1>2, <1>3 DEF Call

\* So does the waker.
LEMMA WakeOpen ==
  ASSUME PlaceInv, EpollInv, Wake
  PROVE  EpollInv'
<1>1. ASSUME NEW c \in Context, PickSleeper(c)
      PROVE  EpollInv'
  BY <1>1 DEF PickSleeper, listVars, epollVars, EpollInv, OpenInv,
              WaitingIsRegistered, NoDeafContext
<1>2. CASE WakeSleeper
  BY <1>2 DEF WakeSleeper, epollVars, EpollInv, OpenInv, WaitingIsRegistered,
              NoDeafContext
<1>3. CASE SwitchWoken
  <2>1. vctx \in Context /\ vctx \in At["waker"]
    BY <1>3, EachSpot DEF SwitchWoken, PlaceInv, TypeOK, ContextOrNone
  <2>2. Aside
    BY <1>3, <2>1, TurnAside DEF SwitchWoken
  <2> QED BY <1>3, <2>2, AsideKeeps
      DEF SwitchWoken, PutTurning, epollVars, EpollInv, WaitingIsRegistered, NoDeafContext
<1> QED BY <1>1, <1>2, <1>3 DEF Wake

\* A put into the polling list of a context that has a connection.
LEMMA RegisterOpen ==
  ASSUME TypeOK, WaitingIsRegistered, NoDeafContext, NEW c \in Context,
         c \in open, type[c] = "CONSTRUCTING" => c \notin waiting,
         NEW in \in BOOLEAN, PutPolling(c, in), UNCHANGED <<open, events>>
  PROVE  /\ WaitingIsRegistered' /\ NoDeafContext'
         /\ waiting' \subseteq waiting \cup {c}
<1>1. CASE /\ c \in registered /\ armed' = armed \cup {c}
           /\ UNCHANGED <<waiting, ready, registered>>
  BY <1>1 DEF PutPolling, WaitingIsRegistered, NoDeafContext
<1>2. CASE /\ c \notin registered /\ registered' = registered \cup {c}
           /\ armed' = armed \cup {c} /\ waiting' = waiting \cup {c}
  BY <1>2 DEF PutPolling, WaitingIsRegistered, NoDeafContext
<1>3. CASE /\ type[c] = "CONSTRUCTING" /\ waiting' = waiting \ {c}
           /\ UNCHANGED <<ready, registered, armed>>
  BY <1>3 DEF PutPolling, WaitingIsRegistered, NoDeafContext
<1>4. CASE c \notin registered /\ UNCHANGED <<waiting, registered, armed>>
  BY <1>4 DEF PutPolling, WaitingIsRegistered, NoDeafContext
<1> QED BY <1>1, <1>2, <1>3, <1>4 DEF PutPolling, Register

\* So do the listeners.
LEMMA ListenOpen ==
  ASSUME PlaceInv, EpollInv, NEW l \in Listener, Listen(l)
  PROVE  EpollInv'
<1>1. /\ lctx \in [Listener -> ContextOrNone] /\ Alone(lctx)
      /\ type \in [Context -> Types]
  BY DEF PlaceInv, TypeOK, Singly
<1>2. ASSUME lctx[l] # NoContext
      PROVE  /\ lctx[l] \in Context
             /\ \A m \in Listener \ {l} : lctx[m] # lctx[l]
             /\ lctx[l] \notin free /\ lctx[l] \notin polling
             /\ \A w \in Worker : wctx[w] # lctx[l]
             /\ Held([lctx EXCEPT ![l] = NoContext]) = Held(lctx) \ {lctx[l]}
  <2>1. lctx[l] \in Context /\ lctx[l] \notin free /\ lctx[l] \notin polling
    BY <1>2, Listened, EachSpot DEF Spots
  <2>2. \A m \in Listener \ {l} : lctx[m] # lctx[l]
    BY <1>1, <1>2 DEF Alone
  <2>3. \A w \in Worker : wctx[w] # lctx[l]
    <3>1. lctx[l] \notin Held(wctx)
      BY <1>2, Listened, EachSpot DEF Spots
    <3>2. DOMAIN wctx = Worker
      BY DEF PlaceInv, TypeOK
    <3> QED BY <1>2, <3>1, <3>2 DEF Held, Range
  <2>4. Held([lctx EXCEPT ![l] = NoContext]) = Held(lctx) \ {lctx[l]}
    BY <1>1, <1>2, DropOne
  <2> QED BY <2>1, <2>2, <2>3, <2>4
<1>3. CASE GetFree(l)
  <2>1. PICK c \in free : free' = free \ {c} /\ lctx' = [lctx EXCEPT ![l] = c]
    BY <1>3 DEF GetFree
  <2>2. c \in At["free"] /\ type[c] = "FREE" /\ c \in Context /\ c \notin Held(lctx)
    BY <2>1, EachSpot, Elsewhere DEF PlaceInv, SpotTypes, TypesOf, Spots
  <2>3. Held([lctx EXCEPT ![l] = c]) = Held(lctx) \cup {c}
    <3>1. /\ lctx \in [Listener -> ContextOrNone] /\ lctx[l] = NoContext
          /\ Alone(lctx)
      BY <1>1, <1>3 DEF GetFree
    <3>2. c \in Context /\ c \notin Held(lctx)
      BY <2>2
    <3>3. /\ Held([lctx EXCEPT ![l] = c]) = Held(lctx) \cup {c}
          /\ Alone([lctx EXCEPT ![l] = c])
      BY <3>1, <3>2, HoldOne
    <3> QED BY <3>3
  <2>4. Held(lctx') = Held(lctx) \cup {c}
    BY <2>1, <2>3
  <2>5. UNCHANGED <<type, wctx, wnext, open, waiting, registered, armed, polling, events>>
    BY <1>3 DEF GetFree, epollVars
  <2>6. OpenInv'
    BY <1>1, <2>1, <2>2, <2>4, <2>5 DEF EpollInv, OpenInv
  <2> QED BY <2>5, <2>6 DEF EpollInv, WaitingIsRegistered, NoDeafContext
<1>4. CASE Construct(l)
  <2>1. lctx[l] # NoContext
    BY <1>4 DEF Construct
  <2>2. /\ open' = open \cup {lctx[l]} /\ type' = [type EXCEPT ![lctx[l]] = "CONSTRUCTING"]
        /\ UNCHANGED <<free, lctx, wctx, wnext, waiting, registered, armed, polling, events>>
    BY <1>4 DEF Construct, SetType, listVars, epollVars
  <2>3. lctx[l] \notin waiting
    BY <2>1 DEF EpollInv, OpenInv
  <2>4. OpenInv'
    <3>1. \A m \in Listener : lctx[m] # NoContext => lctx[m] \in Context
      BY <1>1 DEF ContextOrNone
    <3> QED BY <1>1, <1>2, <2>1, <2>2, <3>1 DEF EpollInv, OpenInv
  <2> QED BY <2>2, <2>3, <2>4 DEF EpollInv, WaitingIsRegistered, NoDeafContext
<1>5. CASE Accept(l)
  <2>1. lctx[l] # NoContext /\ type[lctx[l]] = "CONSTRUCTING" /\ PutPolling(lctx[l], TRUE)
    BY <1>5 DEF Accept
  <2>2. lctx[l] \in open /\ lctx[l] \notin waiting
    BY <2>1 DEF EpollInv, OpenInv
  <2>3. /\ WaitingIsRegistered' /\ NoDeafContext'
        /\ waiting' \subseteq waiting \cup {lctx[l]}
    BY <1>2, <1>5, <2>1, <2>2, RegisterOpen DEF Accept, PlaceInv, EpollInv
  <2>4. /\ UNCHANGED <<free, open, wctx, wnext>>
        /\ lctx' = [lctx EXCEPT ![l] = NoContext]
        /\ type' = [type EXCEPT ![lctx[l]] = "POLLING"]
        /\ Held(lctx') = Held(lctx) \ {lctx[l]}
    BY <1>2, <1>5, <2>1 DEF Accept, PutPolling, SetType
  <2>5. OpenInv'
    <3>1. \A d \in free' : d \notin open' /\ d \notin waiting'
      BY <1>2, <2>1, <2>3, <2>4 DEF EpollInv, OpenInv
    <3>2. ASSUME NEW m \in Listener, lctx'[m] # NoContext
          PROVE  /\ lctx'[m] \notin waiting'
                 /\ lctx'[m] \in open' <=> type'[lctx'[m]] = "CONSTRUCTING"
      <4>1. m # l /\ lctx'[m] = lctx[m]
        BY <1>1, <2>4, <3>2
      <4>2. lctx[m] # lctx[l] /\ lctx[m] \in Context /\ lctx[m] # NoContext
        BY <1>1, <1>2, <2>1, <3>2, <4>1 DEF ContextOrNone
      <4>3. type'[lctx[m]] = type[lctx[m]]
        BY <1>1, <1>2, <2>1, <2>4, <4>2
      <4> QED BY <2>3, <2>4, <4>1, <4>2, <4>3 DEF EpollInv, OpenInv
    <3>3. \A w \in Worker : wnext'[w] # "get" =>
            (wctx'[w] \in open' <=> wnext'[w] # "CLOSE")
      BY <2>4 DEF EpollInv, OpenInv
    <3>4. Context \ (free' \cup Held(lctx') \cup Held(wctx')) \subseteq open'
      BY <2>2, <2>4 DEF EpollInv, OpenInv
    <3> QED BY <3>1, <3>2, <3>3, <3>4 DEF OpenInv
  <2> QED BY <2>3, <2>5 DEF EpollInv
<1>6. CASE Reject(l)
  <2>1. lctx[l] # NoContext /\ type[lctx[l]] = "CONSTRUCTING" /\ PutFree(lctx[l])
    BY <1>6 DEF Reject
  <2>2. lctx[l] \in open /\ lctx[l] \notin waiting
    BY <2>1 DEF EpollInv, OpenInv
  <2>3. /\ UNCHANGED <<wctx, wnext, waiting, registered, armed, polling, events>>
        /\ free' = free \cup {lctx[l]} /\ open' = open \ {lctx[l]}
        /\ lctx' = [lctx EXCEPT ![l] = NoContext]
        /\ type' = [type EXCEPT ![lctx[l]] = "FREE"]
        /\ Held(lctx') = Held(lctx) \ {lctx[l]}
    BY <1>2, <1>6, <2>1 DEF Reject, PutFree, SetType
  <2>4. OpenInv'
    <3>1. \A m \in Listener : lctx[m] # NoContext => lctx[m] \in Context
      BY <1>1 DEF ContextOrNone
    <3> QED BY <1>1, <1>2, <2>1, <2>2, <2>3, <3>1 DEF EpollInv, OpenInv
  <2> QED BY <2>2, <2>3, <2>4 DEF EpollInv, WaitingIsRegistered, NoDeafContext
<1> QED BY <1>3, <1>4, <1>5, <1>6 DEF Listen

\* So do the workers.
LEMMA WorkOpen ==
  ASSUME PlaceInv, EpollInv, NEW w \in Worker, Work(w)
  PROVE  EpollInv'
<1>1. /\ wctx \in [Worker -> ContextOrNone] /\ Alone(wctx)
      /\ wnext \in [Worker -> Results \cup {"get", "process"}]
      /\ type \in [Context -> Types]
      /\ \A x \in Worker : wctx[x] = NoContext <=> wnext[x] = "get"
      /\ turning \in Seq(Context) /\ IsInjective(turning)
  BY DEF PlaceInv, TypeOK, Singly
<1>2. CASE Take(w)
  <2>1. wctx[w] = NoContext /\ turning # <<>>
    BY <1>1, <1>2 DEF Take
  <2>2. Head(turning) \in Context /\ Head(turning) \in ToSet(turning)
    BY <1>1, <2>1, TakeHead
  <2>3. /\ Head(turning) \notin free /\ Head(turning) \notin Held(lctx)
        /\ Head(turning) \notin Held(wctx)
    BY <2>2, EachSpot, Elsewhere DEF PlaceInv, Spots
  <2>4. Head(turning) \in open
    BY <2>2, <2>3 DEF EpollInv, OpenInv
  <2>5. Held([wctx EXCEPT ![w] = Head(turning)]) = Held(wctx) \cup {Head(turning)}
    <3> DEFINE c == Head(turning)
    <3>1. /\ wctx \in [Worker -> ContextOrNone] /\ wctx[w] = NoContext
          /\ Alone(wctx)
      BY <1>1, <2>1
    <3>2. c \in Context /\ c \notin Held(wctx)
      BY <2>2, <2>3
    <3> HIDE DEF c
    <3>3. /\ Held([wctx EXCEPT ![w] = c]) = Held(wctx) \cup {c}
          /\ Alone([wctx EXCEPT ![w] = c])
      BY <3>1, <3>2, HoldOne
    <3> QED BY <3>3 DEF c
  <2>6. /\ wctx' = [wctx EXCEPT ![w] = Head(turning)]
        /\ wnext' = [wnext EXCEPT ![w] = "process"]
        /\ UNCHANGED <<type, free, lctx, open, waiting, registered, armed, polling, events>>
    BY <1>2 DEF Take, epollVars
  <2>7. Held(wctx') = Held(wctx) \cup {Head(turning)}
    BY <2>5, <2>6
  <2>8. OpenInv'
    BY <1>1, <2>4, <2>6, <2>7 DEF EpollInv, OpenInv
  <2> QED BY <2>6, <2>8 DEF EpollInv, WaitingIsRegistered, NoDeafContext
<1>3. ASSUME wnext[w] # "get"
      PROVE  /\ wctx[w] \in Context /\ wctx[w] \in Held(wctx)
             /\ wctx[w] \notin free /\ wctx[w] \notin polling
             /\ \A l \in Listener : lctx[l] # NoContext => lctx[l] # wctx[w]
             /\ \A x \in Worker \ {w} : wctx[x] # wctx[w]
             /\ type[wctx[w]] = "TURNING"
             /\ Held([wctx EXCEPT ![w] = NoContext]) = Held(wctx) \ {wctx[w]}
  <2>1. wctx[w] # NoContext
    BY <1>1, <1>3
  <2>2. /\ wctx[w] \in Context /\ wctx[w] \in Held(wctx)
        /\ wctx[w] \notin free /\ wctx[w] \notin polling
        /\ \A x \in Worker \ {w} : wctx[x] # wctx[w]
    BY <2>1, Worked, EachSpot DEF Spots
  <2>3. \A l \in Listener : lctx[l] # NoContext => lctx[l] # wctx[w]
    BY <2>1, Worked, Listened, EachSpot DEF Spots
  <2>4. type[wctx[w]] = "TURNING"
    BY <2>2, EachSpot DEF PlaceInv, SpotTypes, TypesOf, Spots
  <2>5. Held([wctx EXCEPT ![w] = NoContext]) = Held(wctx) \ {wctx[w]}
    <3>1. wctx \in [Worker -> ContextOrNone] /\ Alone(wctx)
      BY <1>1
    <3> QED BY <2>1, <3>1, DropOne
  <2> QED BY <2>2, <2>3, <2>4, <2>5
<1>4. CASE Process(w)
  <2>1. wnext[w] # "get" /\ wctx[w] \in open
    BY <1>4 DEF Process, EpollInv, OpenInv
  <2>2. /\ UNCHANGED <<type, free, lctx, wctx, waiting, polling, events>>
        /\ \A x \in Worker \ {w} : wnext'[x] = wnext[x]
    BY <1>1, <1>4 DEF Process, listVars
  <2>3. CASE /\ wnext'[w] = "CLOSE"
             /\ open' = open \ {wctx[w]}
             /\ registered' = registered \ {wctx[w]}
             /\ armed' = armed \ {wctx[w]}
    <3>1. OpenInv'
      BY <1>3, <2>1, <2>2, <2>3 DEF EpollInv, OpenInv
    <3>2. WaitingIsRegistered'
      BY <2>2, <2>3 DEF EpollInv, WaitingIsRegistered
    <3>3. NoDeafContext'
      BY <1>3, <2>1, <2>2, <2>3 DEF EpollInv, NoDeafContext
    <3> QED BY <3>1, <3>2, <3>3 DEF EpollInv
  <2>4. CASE wnext'[w] # "CLOSE" /\ UNCHANGED <<open, registered, armed>>
    BY <2>1, <2>2, <2>4 DEF EpollInv, OpenInv, WaitingIsRegistered, NoDeafContext
  <2> QED BY <1>1, <1>4, <2>3, <2>4 DEF Process
<1>5. CASE Put(w)
  <2>1. wnext[w] # "get"
    BY <1>5 DEF Put
  <2>2. /\ UNCHANGED <<lctx, open, events>>
        /\ wctx' = [wctx EXCEPT ![w] = NoContext]
        /\ Held(wctx') = Held(wctx) \ {wctx[w]}
        /\ wnext' = [wnext EXCEPT ![w] = "get"]
    BY <1>3, <1>5, <2>1 DEF Put
  <2>3. ASSUME free' = free, wctx[w] \in open, waiting' \subseteq waiting \cup {wctx[w]},
               \A c \in Context \ {wctx[w]} : type'[c] = type[c]
        PROVE  OpenInv'
    <3>1. \A d \in free' : d \notin open' /\ d \notin waiting'
      BY <1>3, <2>1, <2>2, <2>3 DEF EpollInv, OpenInv
    <3>2. ASSUME NEW l \in Listener, lctx'[l] # NoContext
          PROVE  /\ lctx'[l] \notin waiting'
                 /\ lctx'[l] \in open' <=> type'[lctx'[l]] = "CONSTRUCTING"
      <4>1. lctx'[l] = lctx[l] /\ lctx[l] \in Context /\ lctx[l] # wctx[w]
        BY <1>3, <2>1, <2>2, <3>2, Listened
      <4> QED BY <2>2, <2>3, <3>2, <4>1 DEF EpollInv, OpenInv
    <3>3. ASSUME NEW x \in Worker, wnext'[x] # "get"
          PROVE  wctx'[x] \in open' <=> wnext'[x] # "CLOSE"
      BY <1>1, <2>2, <3>3 DEF EpollInv, OpenInv
    <3>4. Context \ (free' \cup Held(lctx') \cup Held(wctx')) \subseteq open'
      BY <2>2, <2>3 DEF EpollInv, OpenInv
    <3> QED BY <3>1, <3>2, <3>3, <3>4 DEF OpenInv
  <2>4. CASE /\ wnext[w] \in {"CONTINUE", "IDLE", "SLEEPING"}
             /\ UNCHANGED <<free, polling, epollVars>>
             /\ \A c \in Context \ {wctx[w]} : type'[c] = type[c]
    <3>1. wctx[w] \in open
      BY <2>4 DEF EpollInv, OpenInv
    <3>2. OpenInv'
      BY <2>3, <2>4, <3>1 DEF epollVars
    <3> QED BY <2>2, <2>4, <3>2
        DEF EpollInv, WaitingIsRegistered, NoDeafContext, epollVars
  <2>5. CASE /\ wnext[w] \in {"POLLING", "POLLING_OUT"}
             /\ \E in \in BOOLEAN : PutPolling(wctx[w], in)
    <3>1. wctx[w] \in open
      BY <2>5 DEF EpollInv, OpenInv
    <3>2. /\ WaitingIsRegistered' /\ NoDeafContext'
          /\ waiting' \subseteq waiting \cup {wctx[w]}
      BY <1>3, <2>1, <2>2, <2>5, <3>1, RegisterOpen DEF PlaceInv, EpollInv
    <3>3. free' = free /\ \A c \in Context \ {wctx[w]} : type'[c] = type[c]
      BY <1>1, <2>5 DEF PutPolling, SetType
    <3> QED BY <2>3, <3>1, <3>2, <3>3 DEF EpollInv
  <2>6. CASE wnext[w] = "CLOSE" /\ PutFree(wctx[w])
    <3>1. wctx[w] \notin open
      BY <2>6 DEF EpollInv, OpenInv
    <3>2. /\ free' = free \cup {wctx[w]} /\ waiting' = waiting \ {wctx[w]}
          /\ UNCHANGED <<polling, registered, armed>>
          /\ \A c \in Context \ {wctx[w]} : type'[c] = type[c]
      BY <1>1, <1>3, <2>1, <2>6 DEF PutFree, SetType
    <3>3. OpenInv'
      <4>1. \A d \in free' : d \notin open' /\ d \notin waiting'
        BY <2>2, <3>1, <3>2 DEF EpollInv, OpenInv
      <4>2. ASSUME NEW l \in Listener, lctx'[l] # NoContext
            PROVE  /\ lctx'[l] \notin waiting'
                   /\ lctx'[l] \in open' <=> type'[lctx'[l]] = "CONSTRUCTING"
        <5>1. lctx'[l] = lctx[l] /\ lctx[l] \in Context /\ lctx[l] # wctx[w]
          BY <1>3, <2>1, <2>2, <4>2, Listened
        <5> QED BY <2>2, <3>2, <4>2, <5>1 DEF EpollInv, OpenInv
      <4>3. ASSUME NEW x \in Worker, wnext'[x] # "get"
            PROVE  wctx'[x] \in open' <=> wnext'[x] # "CLOSE"
        BY <1>1, <2>2, <4>3 DEF EpollInv, OpenInv
      <4>4. Context \ (free' \cup Held(lctx') \cup Held(wctx')) \subseteq open'
        BY <2>2, <3>2 DEF EpollInv, OpenInv
      <4> QED BY <4>1, <4>2, <4>3, <4>4 DEF OpenInv
    <3>4. WaitingIsRegistered'
      BY <2>2, <3>1, <3>2 DEF EpollInv, WaitingIsRegistered
    <3>5. NoDeafContext'
      BY <2>2, <3>2 DEF EpollInv, NoDeafContext
    <3> QED BY <3>3, <3>4, <3>5 DEF EpollInv
  <2>7. \/ wnext[w] = "CONTINUE" /\ PutTurning(wctx[w])
        \/ wnext[w] = "IDLE" /\ PutIdling(wctx[w])
        \/ /\ wnext[w] \in {"POLLING", "POLLING_OUT"}
           /\ \E in \in BOOLEAN : PutPolling(wctx[w], in)
        \/ wnext[w] = "SLEEPING" /\ PutSleeping(wctx[w])
        \/ wnext[w] = "CLOSE" /\ PutFree(wctx[w])
    BY <1>5 DEF Put
  <2>8. \A c \in Context \ {wctx[w]}, t \in Types :
          SetType(wctx[w], t) => type'[c] = type[c]
    BY <1>1 DEF SetType
  <2>9. ASSUME \/ wnext[w] = "CONTINUE" /\ PutTurning(wctx[w])
               \/ wnext[w] = "IDLE" /\ PutIdling(wctx[w])
               \/ wnext[w] = "SLEEPING" /\ PutSleeping(wctx[w])
        PROVE  /\ wnext[w] \in {"CONTINUE", "IDLE", "SLEEPING"}
               /\ UNCHANGED <<free, polling, epollVars>>
               /\ \A c \in Context \ {wctx[w]} : type'[c] = type[c]
    BY <2>8, <2>9 DEF PutTurning, PutIdling, PutSleeping, Types
  <2> QED BY <2>4, <2>5, <2>6, <2>7, <2>9
<1> QED BY <1>2, <1>4, <1>5 DEF Work

\* Initially nobody has a connection.
LEMMA InitOpen == Init => EpollInv
<1> SUFFICES ASSUME Init
             PROVE  EpollInv
  OBVIOUS
<1>1. OpenInv
  BY DEF Init, OpenInv
<1> QED BY <1>1 DEF Init, EpollInv, WaitingIsRegistered, NoDeafContext

\* Every step keeps EpollInv.
LEMMA NextOpen ==
  ASSUME PlaceInv, EpollInv, [Next]_vars
  PROVE  EpollInv'
<1>1. CASE UNCHANGED vars
  BY <1>1 DEF vars, listVars, epollVars, EpollInv, OpenInv, WaitingIsRegistered,
              NoDeafContext
<1>2. CASE Next
  BY <1>2, ListenOpen, EpollThreadOpen, ScanOpen, WorkOpen, CallOpen, WakeOpen
  DEF Next
<1> QED BY <1>1, <1>2

\* What the pool knows of connections and of the epoll set, in every state.
THEOREM ConnectionsCorrect == Spec => []EpollInv
BY InitOpen, NextOpen, PlacesCorrect, PTL DEF Spec

\* b_waiting is right about the epoll set, through EPOLL_CTL_ADD, MOD and DEL
\* that fail and contexts that are used again.
THEOREM WaitingMatches == Spec => []WaitingIsRegistered
<1>1. EpollInv => WaitingIsRegistered
  BY DEF EpollInv
<1> QED BY <1>1, ConnectionsCorrect, PTL

\* EPOLLONESHOT and thrown-away events leave no polled context deaf.
THEOREM NoContextIsDeaf == Spec => []NoDeafContext
<1>1. EpollInv => NoDeafContext
  BY DEF EpollInv
<1> QED BY <1>1, ConnectionsCorrect, PTL
=============================================================================
