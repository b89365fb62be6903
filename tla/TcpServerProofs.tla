--------------------------- MODULE TcpServerProofs ---------------------------
(***************************************************************************)
(* The ownership of SessionCtxs and Sessions in TcpServer, and the order   *)
(* of its callbacks, for any number of connections, limits of the idle     *)
(* lists, writes and sessions.                                             *)
(*                                                                         *)
(* The table of sessions and the handles know each other: a Session is in  *)
(* the table exactly while its ctx is open or on its way to _session_close *)
(* (Serves), under the id the ctx was given when it was accepted, so that  *)
(* no two Sessions share a ctx.  Ids grow, so an id is told once (Told).   *)
(* The params in flight are counted through the writes that hold them,     *)
(* each write being a pair of its stream and its place (Unanswered).       *)
(***************************************************************************)
EXTENDS TcpServerProperties, FiniteSetTheorems, TLAPS

Serves ==
  \A s \in Live :
    /\ s <= last_sid
    /\ sid[sessions[s]] = s
    /\ \/ handle[sessions[s]] = "open"
       \/ handle[sessions[s]] = "closing" /\ close_cb[sessions[s]] = "_session_close"

Told ==
  /\ Range(announced) \subseteq 1 .. last_sid
  /\ Range(told) \subseteq 1 .. last_sid \cup {ServerEnd}
  /\ Live = Range(announced) \ Range(told)
  /\ is_closed <=> ServerEnd \in Range(told)

Ended == is_closed => \A h \in Handles : handle[h] = "none"

IInv == TypeOK /\ CtxsOwned /\ CallbacksFindTheirs /\ Serves /\ Told /\ Ended

-----------------------------------------------------------------------------
(* What remains of a list of distinct elements without its head, and what it *)
(* is with one more.                                                         *)
LEMMA WithoutHead ==
  ASSUME NEW S, NEW q \in Seq(S), q # <<>>, IsInjective(q)
  PROVE  /\ Head(q) \in Range(q) /\ Range(q) \subseteq S
         /\ Tail(q) \in Seq(S)
         /\ IsInjective(Tail(q))
         /\ Range(Tail(q)) = Range(q) \ {Head(q)}
<1>1. /\ Len(q) \in Nat /\ Len(q) >= 1 /\ DOMAIN q = 1 .. Len(q) /\ Head(q) = q[1]
      /\ \A i \in 1 .. Len(q) : q[i] \in S
  OBVIOUS
<1>2. /\ Tail(q) \in Seq(S) /\ DOMAIN Tail(q) = 1 .. Len(q) - 1
      /\ \A i \in 1 .. Len(q) - 1 : Tail(q)[i] = q[i + 1]
  OBVIOUS
<1>3. Head(q) \in Range(q) /\ Range(q) \subseteq S
  BY <1>1 DEF Range
<1>4. IsInjective(Tail(q))
  BY <1>1, <1>2, SMT DEF IsInjective
<1>5. ASSUME NEW x \in Range(Tail(q))
      PROVE  x \in Range(q) /\ x # Head(q)
  BY <1>1, <1>2, SMT DEF IsInjective, Range
<1>6. ASSUME NEW x \in Range(q), x # Head(q)
      PROVE  x \in Range(Tail(q))
  <2>1. PICK i \in 2 .. Len(q) : x = q[i]
    BY <1>1, <1>6, SMT DEF Range
  <2>2. i - 1 \in 1 .. Len(q) - 1 /\ Tail(q)[i - 1] = q[i]
    BY <1>1, <1>2, SMT
  <2> QED  BY <1>2, <2>1, <2>2, SMT DEF Range
<1> QED
  BY <1>2, <1>3, <1>4, <1>5, <1>6

LEMMA WithOneMore ==
  ASSUME NEW S, NEW q \in Seq(S), NEW e \in S
  PROVE  /\ Append(q, e) \in Seq(S)
         /\ Range(Append(q, e)) = Range(q) \cup {e}
         /\ IsInjective(q) /\ e \notin Range(q) => IsInjective(Append(q, e))
<1>1. Len(q) \in Nat /\ DOMAIN q = 1 .. Len(q)
  OBVIOUS
<1>2. /\ Append(q, e) \in Seq(S) /\ DOMAIN Append(q, e) = 1 .. Len(q) + 1
      /\ Append(q, e)[Len(q) + 1] = e /\ \A i \in 1 .. Len(q) : Append(q, e)[i] = q[i]
  OBVIOUS
<1>3. \A x : x \in Range(Append(q, e)) <=> x \in Range(q) \/ x = e
  BY <1>1, <1>2, SMT DEF Range
<1>4. IsInjective(q) /\ e \notin Range(q) => IsInjective(Append(q, e))
  BY <1>1, <1>2, SMT DEF Range, IsInjective
<1> QED
  BY <1>2, <1>3, <1>4

LEMMA EmptyList == Range(<<>>) = {} /\ IsInjective(<<>>) /\ \A S : <<>> \in Seq(S)
<1>1. DOMAIN <<>> = {}
  OBVIOUS
<1> QED
  BY <1>1 DEF Range, IsInjective

(* _fetch_one_ctx hands out a ctx that nobody has.                           *)
LEMMA FetchGives ==
  ASSUME TypeOK, CtxsOwned, NEW c \in Fetchable
  PROVE  /\ c \in Ctxs /\ handle[c] = "none" /\ writes[c] = 0
         /\ AfterFetch \in Seq(Ctxs) /\ IsInjective(AfterFetch)
         /\ Range(AfterFetch) \subseteq alloc /\ c \notin Range(AfterFetch)
         /\ (alloc \cup {c}) \ Range(AfterFetch) = {d \in Ctxs : handle[d] # "none"} \cup {c}
<1>1. avail_ctxs \in Seq(Ctxs) /\ IsInjective(avail_ctxs) /\ Range(avail_ctxs) \subseteq alloc
  BY DEF TypeOK, CtxsOwned, IdleOnce, IdleAllocated
<1>2. /\ alloc \subseteq Ctxs
      /\ {d \in Ctxs : handle[d] # "none"} = alloc \ Range(avail_ctxs)
      /\ \A d \in Ctxs : handle[d] = "none" => writes[d] = 0
  BY DEF TypeOK, CtxsOwned, CtxsAccountedFor, NothingPending
<1>3. CASE avail_ctxs = <<>>
  <2>1. c \in Ctxs \ alloc /\ AfterFetch = <<>>
    BY <1>3 DEF Fetchable, AfterFetch
  <2> QED
    BY <1>1, <1>2, <1>3, <2>1, EmptyList, Zenon
<1>4. CASE avail_ctxs # <<>>
  <2>1. c = Head(avail_ctxs) /\ AfterFetch = Tail(avail_ctxs)
    BY <1>4 DEF Fetchable, AfterFetch
  <2>2. /\ c \in Range(avail_ctxs) /\ Range(avail_ctxs) \subseteq Ctxs
        /\ AfterFetch \in Seq(Ctxs) /\ IsInjective(AfterFetch)
        /\ Range(AfterFetch) = Range(avail_ctxs) \ {c}
    BY <1>1, <1>4, <2>1, WithoutHead
  <2> QED
    BY <1>1, <1>2, <2>2, Zenon
<1> QED
  BY <1>3, <1>4

(* _recycle_one_ctx takes back a ctx: then it is idle or freed.              *)
LEMMA RecycleTakes ==
  ASSUME NEW idle \in Seq(Ctxs), IsInjective(idle),
         NEW a, a \subseteq Ctxs, Range(idle) \subseteq a,
         NEW c \in a, c \notin Range(idle)
  PROVE  /\ Recycled(idle, c) \in Seq(Ctxs) /\ IsInjective(Recycled(idle, c))
         /\ Kept(idle, a, c) \subseteq Ctxs
         /\ Range(Recycled(idle, c)) \subseteq Kept(idle, a, c)
         /\ Kept(idle, a, c) \ Range(Recycled(idle, c)) = (a \ Range(idle)) \ {c}
<1>1. CASE Len(idle) > MAXLISTSIZE
  BY <1>1, Zenon DEF Recycled, Kept
<1>2. CASE ~(Len(idle) > MAXLISTSIZE)
  <2>1. Recycled(idle, c) = Append(idle, c) /\ Kept(idle, a, c) = a
    BY <1>2, Zenon DEF Recycled, Kept
  <2>2. /\ Append(idle, c) \in Seq(Ctxs) /\ IsInjective(Append(idle, c))
        /\ Range(Append(idle, c)) = Range(idle) \cup {c}
    BY WithOneMore
  <2> QED
    BY <2>1, <2>2
<1> QED
  BY <1>1, <1>2
-----------------------------------------------------------------------------
LEMMA ServerInit == Init => IInv
<1> SUFFICES ASSUME Init PROVE IInv
  OBVIOUS
<1>1. Live = {}
  BY DEF Init, Live
<1>2. TypeOK
  <2>1. /\ handle \in [Handles -> {"none", "open", "closing"}]
        /\ close_cb \in [Handles ->
                          {"none", "_session_close", "RecycleSessionCtx", "AfterServerClose"}]
    BY Zenon DEF Init
  <2>2. /\ async_pending \in BOOLEAN /\ is_user_closed \in BOOLEAN /\ is_closed \in BOOLEAN
        /\ aborted \in BOOLEAN
    BY Zenon DEF Init
  <2>3. /\ data \in [Ctxs -> Sids \cup {NULL}] /\ sid \in [Ctxs -> Sids \cup {NULL}]
        /\ parent_session \in [Ctxs -> Sids \cup {NULL}] /\ writes \in [Ctxs -> Nat]
        /\ sessions \in [Sids -> Ctxs \cup {NoCtx}]
    BY SMT DEF Init
  <2>4. /\ last_sid \in 0 .. MaxSid /\ avail_params \in 0 .. MAXLISTSIZE + 1 /\ params \in Int
    BY ServerAssumption, SMT DEF Init
  <2>5. /\ alloc \subseteq Ctxs /\ avail_ctxs \in Seq(Ctxs) /\ closer \in {"out", "flag", "signal"}
        /\ announced \in Seq(Sids) /\ told \in Seq(Sids \cup {ServerEnd})
    BY EmptyList DEF Init
  <2> QED
    BY <2>1, <2>2, <2>3, <2>4, <2>5 DEF TypeOK
<1>3. CtxsOwned
  BY EmptyList, ServerAssumption DEF Init, Handles, CtxsOwned, IdleOnce, IdleAllocated,
     CtxsAccountedFor, NothingPending
<1>4. CallbacksFindTheirs
  BY ServerAssumption DEF Init, Handles, CallbacksFindTheirs
<1>5. Serves /\ Told /\ Ended
  BY <1>1, EmptyList DEF Init, Serves, Told, Ended
<1> QED
  BY <1>2, <1>3, <1>4, <1>5 DEF IInv

LEMMA SendTakenStep ==
  ASSUME IInv, NEW c \in Ctxs, SendTaken(c)
  PROVE  IInv'
<1>1. TypeOK /\ CtxsOwned /\ CallbacksFindTheirs /\ Serves /\ Told /\ Ended
  BY DEF IInv
<1>2. TypeOK'
  BY <1>1, ServerAssumption, SMT DEF SendTaken, handleVars, poolVars,
     sessionVars, closeVars, eventVars, Running, ctxVars, paramVars, TypeOK,
     RecycledParams, NULL
<1>3. CtxsOwned'
  BY <1>1, SMT DEF SendTaken, handleVars, poolVars, sessionVars, closeVars,
     eventVars, Running, ctxVars, paramVars, CtxsOwned, TypeOK, IdleOnce,
     IdleAllocated, CtxsAccountedFor, NothingPending
<1>4. CallbacksFindTheirs'
  BY <1>1, SMT DEF SendTaken, handleVars, poolVars, sessionVars, closeVars,
     eventVars, Running, ctxVars, paramVars, CallbacksFindTheirs, Live
<1>5. Serves'
  BY <1>1, SMT DEF SendTaken, handleVars, poolVars, sessionVars, closeVars,
     eventVars, Running, ctxVars, paramVars, Serves, Live
<1>6. Told'
  BY <1>1, SMT DEF SendTaken, handleVars, poolVars, sessionVars, closeVars,
     eventVars, Running, ctxVars, paramVars, Told, Live
<1>7. Ended'
  BY <1>1, SMT DEF SendTaken, handleVars, poolVars, sessionVars, closeVars,
     eventVars, Running, ctxVars, paramVars, Ended, Live
<1> QED
  BY <1>2, <1>3, <1>4, <1>5, <1>6, <1>7 DEF IInv

LEMMA SendRefusedStep ==
  ASSUME IInv, NEW c \in Ctxs, SendRefused(c)
  PROVE  IInv'
<1>1. TypeOK /\ CtxsOwned /\ CallbacksFindTheirs /\ Serves /\ Told /\ Ended
  BY DEF IInv
<1>2. TypeOK'
  BY <1>1, ServerAssumption, SMT DEF SendRefused, handleVars, ctxVars,
     poolVars, sessionVars, closeVars, eventVars, Running, paramVars, TypeOK,
     RecycledParams, NULL
<1>3. CtxsOwned'
  BY <1>1, SMT DEF SendRefused, handleVars, ctxVars, poolVars, sessionVars,
     closeVars, eventVars, Running, paramVars, CtxsOwned, TypeOK, IdleOnce,
     IdleAllocated, CtxsAccountedFor, NothingPending
<1>4. CallbacksFindTheirs'
  BY <1>1, SMT DEF SendRefused, handleVars, ctxVars, poolVars, sessionVars,
     closeVars, eventVars, Running, paramVars, CallbacksFindTheirs, Live
<1>5. Serves'
  BY <1>1, SMT DEF SendRefused, handleVars, ctxVars, poolVars, sessionVars,
     closeVars, eventVars, Running, paramVars, Serves, Live
<1>6. Told'
  BY <1>1, SMT DEF SendRefused, handleVars, ctxVars, poolVars, sessionVars,
     closeVars, eventVars, Running, paramVars, Told, Live
<1>7. Ended'
  BY <1>1, SMT DEF SendRefused, handleVars, ctxVars, poolVars, sessionVars,
     closeVars, eventVars, Running, paramVars, Ended, Live
<1> QED
  BY <1>2, <1>3, <1>4, <1>5, <1>6, <1>7 DEF IInv

LEMMA OnSendStep ==
  ASSUME IInv, NEW c \in Ctxs, OnSend(c)
  PROVE  IInv'
<1>1. TypeOK /\ CtxsOwned /\ CallbacksFindTheirs /\ Serves /\ Told /\ Ended
  BY DEF IInv
<1>2. TypeOK'
  BY <1>1, ServerAssumption, SMT DEF OnSend, handleVars, poolVars,
     sessionVars, closeVars, eventVars, Running, RecycleParams, ctxVars,
     paramVars, TypeOK, RecycledParams, NULL
<1>3. CtxsOwned'
  BY <1>1, SMT DEF OnSend, handleVars, poolVars, sessionVars, closeVars,
     eventVars, Running, RecycleParams, ctxVars, paramVars, CtxsOwned, TypeOK,
     IdleOnce, IdleAllocated, CtxsAccountedFor, NothingPending
<1>4. CallbacksFindTheirs'
  BY <1>1, SMT DEF OnSend, handleVars, poolVars, sessionVars, closeVars,
     eventVars, Running, RecycleParams, ctxVars, paramVars, CallbacksFindTheirs,
     Live
<1>5. Serves'
  BY <1>1, SMT DEF OnSend, handleVars, poolVars, sessionVars, closeVars,
     eventVars, Running, RecycleParams, ctxVars, paramVars, Serves, Live
<1>6. Told'
  BY <1>1, SMT DEF OnSend, handleVars, poolVars, sessionVars, closeVars,
     eventVars, Running, RecycleParams, ctxVars, paramVars, Told, Live
<1>7. Ended'
  BY <1>1, SMT DEF OnSend, handleVars, poolVars, sessionVars, closeVars,
     eventVars, Running, RecycleParams, ctxVars, paramVars, Ended, Live
<1> QED
  BY <1>2, <1>3, <1>4, <1>5, <1>6, <1>7 DEF IInv

LEMMA CloseStep ==
  ASSUME IInv, Close
  PROVE  IInv'
<1>1. TypeOK /\ CtxsOwned /\ CallbacksFindTheirs /\ Serves /\ Told /\ Ended
  BY DEF IInv
<1>2. TypeOK'
  BY <1>1, ServerAssumption, SMT DEF Close, handleVars, ctxVars, poolVars,
     paramVars, sessionVars, eventVars, closeVars, TypeOK, RecycledParams, NULL
<1>3. CtxsOwned'
  BY <1>1, SMT DEF Close, handleVars, ctxVars, poolVars, paramVars,
     sessionVars, eventVars, closeVars, CtxsOwned, TypeOK, IdleOnce,
     IdleAllocated, CtxsAccountedFor, NothingPending
<1>4. CallbacksFindTheirs'
  BY <1>1, SMT DEF Close, handleVars, ctxVars, poolVars, paramVars,
     sessionVars, eventVars, closeVars, CallbacksFindTheirs, Live
<1>5. Serves'
  BY <1>1, SMT DEF Close, handleVars, ctxVars, poolVars, paramVars,
     sessionVars, eventVars, closeVars, Serves, Live
<1>6. Told'
  BY <1>1, SMT DEF Close, handleVars, ctxVars, poolVars, paramVars,
     sessionVars, eventVars, closeVars, Told, Live
<1>7. Ended'
  BY <1>1, SMT DEF Close, handleVars, ctxVars, poolVars, paramVars,
     sessionVars, eventVars, closeVars, Ended, Live
<1> QED
  BY <1>2, <1>3, <1>4, <1>5, <1>6, <1>7 DEF IInv

LEMMA CloseFlagStep ==
  ASSUME IInv, CloseFlag
  PROVE  IInv'
<1>1. TypeOK /\ CtxsOwned /\ CallbacksFindTheirs /\ Serves /\ Told /\ Ended
  BY DEF IInv
<1>2. TypeOK'
  BY <1>1, ServerAssumption, SMT DEF CloseFlag, handleVars, ctxVars,
     poolVars, paramVars, sessionVars, eventVars, closeVars, TypeOK,
     RecycledParams, NULL
<1>3. CtxsOwned'
  BY <1>1, SMT DEF CloseFlag, handleVars, ctxVars, poolVars, paramVars,
     sessionVars, eventVars, closeVars, CtxsOwned, TypeOK, IdleOnce,
     IdleAllocated, CtxsAccountedFor, NothingPending
<1>4. CallbacksFindTheirs'
  BY <1>1, SMT DEF CloseFlag, handleVars, ctxVars, poolVars, paramVars,
     sessionVars, eventVars, closeVars, CallbacksFindTheirs, Live
<1>5. Serves'
  BY <1>1, SMT DEF CloseFlag, handleVars, ctxVars, poolVars, paramVars,
     sessionVars, eventVars, closeVars, Serves, Live
<1>6. Told'
  BY <1>1, SMT DEF CloseFlag, handleVars, ctxVars, poolVars, paramVars,
     sessionVars, eventVars, closeVars, Told, Live
<1>7. Ended'
  BY <1>1, SMT DEF CloseFlag, handleVars, ctxVars, poolVars, paramVars,
     sessionVars, eventVars, closeVars, Ended, Live
<1> QED
  BY <1>2, <1>3, <1>4, <1>5, <1>6, <1>7 DEF IInv

LEMMA CloseSignalStep ==
  ASSUME IInv, CloseSignal
  PROVE  IInv'
<1>1. TypeOK /\ CtxsOwned /\ CallbacksFindTheirs /\ Serves /\ Told /\ Ended
  BY DEF IInv
<1>2. TypeOK'
  BY <1>1, ServerAssumption, SMT DEF CloseSignal, handleVars, ctxVars,
     poolVars, paramVars, sessionVars, eventVars, closeVars, TypeOK,
     RecycledParams, NULL
<1>3. CtxsOwned'
  BY <1>1, SMT DEF CloseSignal, handleVars, ctxVars, poolVars, paramVars,
     sessionVars, eventVars, closeVars, CtxsOwned, TypeOK, IdleOnce,
     IdleAllocated, CtxsAccountedFor, NothingPending
<1>4. CallbacksFindTheirs'
  BY <1>1, SMT DEF CloseSignal, handleVars, ctxVars, poolVars, paramVars,
     sessionVars, eventVars, closeVars, CallbacksFindTheirs, Live
<1>5. Serves'
  BY <1>1, SMT DEF CloseSignal, handleVars, ctxVars, poolVars, paramVars,
     sessionVars, eventVars, closeVars, Serves, Live
<1>6. Told'
  BY <1>1, SMT DEF CloseSignal, handleVars, ctxVars, poolVars, paramVars,
     sessionVars, eventVars, closeVars, Told, Live
<1>7. Ended'
  BY <1>1, SMT DEF CloseSignal, handleVars, ctxVars, poolVars, paramVars,
     sessionVars, eventVars, closeVars, Ended, Live
<1> QED
  BY <1>2, <1>3, <1>4, <1>5, <1>6, <1>7 DEF IInv

LEMMA TcpInitFailsStep ==
  ASSUME IInv, NEW c \in Ctxs, TcpInitFails(c)
  PROVE  IInv'
<1>1. TypeOK /\ CtxsOwned /\ CallbacksFindTheirs /\ Serves /\ Told /\ Ended
  BY DEF IInv
<1>2. /\ c \in Ctxs /\ handle[c] = "none"
      /\ AfterFetch \in Seq(Ctxs) /\ IsInjective(AfterFetch)
      /\ Range(AfterFetch) \subseteq alloc \cup {c} /\ c \notin Range(AfterFetch)
      /\ (alloc \cup {c}) \ Range(AfterFetch) = {d \in Ctxs : handle[d] # "none"} \cup {c}
      /\ alloc \cup {c} \subseteq Ctxs
  BY <1>1, FetchGives DEF TcpInitFails, TypeOK
<1>3. /\ avail_ctxs' \in Seq(Ctxs) /\ IsInjective(avail_ctxs)' /\ alloc' \subseteq Ctxs
      /\ Range(avail_ctxs)' \subseteq alloc'
      /\ alloc' \ Range(avail_ctxs)' = {d \in Ctxs : handle[d] # "none"}
  <2>1. /\ avail_ctxs' = Recycled(AfterFetch, c)
        /\ alloc' = Kept(AfterFetch, alloc \cup {c}, c)
    BY DEF TcpInitFails
  <2> DEFINE a == alloc \cup {c}
             idle == AfterFetch
  <2>2. /\ idle \in Seq(Ctxs) /\ IsInjective(idle)
        /\ a \subseteq Ctxs /\ Range(idle) \subseteq a
        /\ c \in a /\ c \notin Range(idle)
    BY <1>2
  <2>3. /\ Recycled(idle, c) \in Seq(Ctxs) /\ IsInjective(Recycled(idle, c))
        /\ Kept(idle, a, c) \subseteq Ctxs
        /\ Range(Recycled(idle, c)) \subseteq Kept(idle, a, c)
        /\ Kept(idle, a, c) \ Range(Recycled(idle, c)) = (a \ Range(idle)) \ {c}
    <3> HIDE DEF a, idle
    <3> QED
      BY <2>2, RecycleTakes
  <2>4. (({d \in Ctxs : handle[d] # "none"} \cup {c}) \ {c}) = {d \in Ctxs : handle[d] # "none"}
    BY <1>2, Zenon
  <2>5. alloc' \ Range(avail_ctxs') = ((alloc \cup {c}) \ Range(AfterFetch)) \ {c}
    BY <2>1, <2>3, Zenon
  <2>6. alloc' \ Range(avail_ctxs') = {d \in Ctxs : handle[d] # "none"}
    BY <1>2, <2>4, <2>5, Zenon
  <2> QED
    BY <2>1, <2>3, <2>6, Zenon
<1>4. TypeOK'
  <2>1. avail_ctxs' \in Seq(Ctxs) /\ alloc' \subseteq Ctxs
    BY <1>3
  <2>2. parent_session' \in [Ctxs -> Sids \cup {NULL}]
    BY <1>1, SMT DEF TcpInitFails, TypeOK
  <2> QED
    BY <1>1, <2>1, <2>2, Zenon DEF TcpInitFails, handleVars, paramVars,
       sessionVars, closeVars, eventVars, Running, ctxVars, poolVars, TypeOK
<1>5. CtxsOwned'
  BY <1>1, <1>3, Zenon DEF TcpInitFails, handleVars, paramVars, sessionVars,
     closeVars, eventVars, Running, ctxVars, poolVars, CtxsOwned, IdleOnce,
     IdleAllocated, CtxsAccountedFor, NothingPending
<1>6. CallbacksFindTheirs'
  BY <1>1, <1>2, SMT DEF TcpInitFails, handleVars, paramVars, sessionVars,
     closeVars, eventVars, Running, ctxVars, poolVars, TypeOK, Live,
     CallbacksFindTheirs
<1>7. Serves'
  BY <1>1, SMT DEF TcpInitFails, handleVars, paramVars, sessionVars,
     closeVars, eventVars, Running, ctxVars, poolVars, Live, Serves
<1>8. Told'
  BY <1>1, SMT DEF TcpInitFails, handleVars, paramVars, sessionVars,
     closeVars, eventVars, Running, ctxVars, poolVars, Live, Told
<1>9. Ended'
  BY <1>1, SMT DEF TcpInitFails, handleVars, paramVars, sessionVars,
     closeVars, eventVars, Running, ctxVars, poolVars, Live, Ended
<1> QED
  BY <1>4, <1>5, <1>6, <1>7, <1>8, <1>9 DEF IInv

(* The ctx of a new connection was nobody's, nor was its id ever used.       *)
LEMMA AcceptTakes ==
  ASSUME IInv, NEW c \in Ctxs, Accept(c),
         NEW st \in {"open", "closing"}, handle' = [handle EXCEPT ![c] = st], UNCHANGED writes
  PROVE  /\ handle[c] = "none" /\ CtxsOwned'
         /\ alloc' \subseteq Ctxs /\ avail_ctxs' \in Seq(Ctxs)
         /\ last_sid' \in Sids /\ last_sid' \notin Live /\ last_sid' = last_sid + 1
         /\ \A s \in Live : sessions[s] # c
<1>1. TypeOK /\ CtxsOwned /\ CallbacksFindTheirs /\ Serves /\ Told /\ Ended
  BY DEF IInv
<1>2. /\ handle[c] = "none" /\ writes[c] = 0
      /\ AfterFetch \in Seq(Ctxs) /\ IsInjective(AfterFetch)
      /\ Range(AfterFetch) \subseteq alloc /\ c \notin Range(AfterFetch)
      /\ (alloc \cup {c}) \ Range(AfterFetch) = {d \in Ctxs : handle[d] # "none"} \cup {c}
  BY <1>1, FetchGives DEF Accept
<1>3. alloc' = alloc \cup {c} /\ avail_ctxs' = AfterFetch
  BY DEF Accept
<1>4. {d \in Ctxs : handle'[d] # "none"} = {d \in Ctxs : handle[d] # "none"} \cup {c}
  BY <1>1, SMT DEF TypeOK, Handles
<1>5. \A d \in Ctxs : handle'[d] = "none" => writes'[d] = 0
  BY <1>1, SMT DEF TypeOK, Handles, CtxsOwned, NothingPending
<1>6. CtxsOwned'
  BY <1>2, <1>3, <1>4, <1>5, Zenon DEF CtxsOwned, IdleOnce, IdleAllocated,
     CtxsAccountedFor, NothingPending
<1>7. alloc' \subseteq Ctxs /\ avail_ctxs' \in Seq(Ctxs)
  BY <1>1, <1>2, <1>3 DEF TypeOK
<1>8. last_sid' \in Sids /\ last_sid' \notin Live /\ last_sid' = last_sid + 1
  BY <1>1, ServerAssumption, SMT DEF Accept, TypeOK, Sids, Serves
<1>9. \A s \in Live : sessions[s] # c
  BY <1>1, <1>2 DEF Serves
<1> QED
  BY <1>2, <1>6, <1>7, <1>8, <1>9

LEMMA ReadStartFailsStep ==
  ASSUME IInv, NEW c \in Ctxs, ReadStartFails(c)
  PROVE  IInv'
<1>1. TypeOK /\ CtxsOwned /\ CallbacksFindTheirs /\ Serves /\ Told /\ Ended
  BY DEF IInv
<1>2. /\ handle[c] = "none" /\ CtxsOwned'
      /\ alloc' \subseteq Ctxs /\ avail_ctxs' \in Seq(Ctxs)
      /\ last_sid' \in Sids /\ last_sid' \notin Live /\ last_sid' = last_sid + 1
      /\ \A s \in Live : sessions[s] # c
  BY AcceptTakes DEF ReadStartFails
<1>3. /\ NoCtx \notin Ctxs /\ \A d \in Ctxs : d \in Handles
      /\ NULL \notin Sids
  BY ServerAssumption, SMT DEF Handles, Sids, NULL
<1>4. Live' = Live
  BY SMT DEF ReadStartFails, paramVars, closeVars, eventVars, Accept,
     handleVars, ctxVars, poolVars, sessionVars, Running, Live
<1>5. \A s \in Live : s \in Sids /\ sessions[s] \in Ctxs
  BY <1>1 DEF Live, TypeOK
<1>6. TypeOK'
  BY <1>1, <1>2, <1>3, <1>4, ServerAssumption, SMT DEF ReadStartFails,
     paramVars, closeVars, eventVars, Accept, handleVars, ctxVars, poolVars,
     sessionVars, Running, TypeOK, NULL
<1>7. CtxsOwned'
  BY <1>2
<1>8. CallbacksFindTheirs'
  BY <1>1, <1>2, <1>3, <1>4, SMT DEF ReadStartFails, paramVars, closeVars,
     eventVars, Accept, handleVars, ctxVars, poolVars, sessionVars, Running,
     TypeOK, CallbacksFindTheirs, Serves
<1>9. Serves'
  <2> SUFFICES ASSUME NEW s \in Live'
               PROVE  /\ s <= last_sid' /\ sid'[sessions'[s]] = s
                      /\ \/ handle'[sessions'[s]] = "open"
                         \/ /\ handle'[sessions'[s]] = "closing"
                            /\ close_cb'[sessions'[s]] = "_session_close"
    BY DEF Serves
  <2>1. s \in Live /\ sessions[s] # c /\ sessions[s] \in Ctxs /\ sessions'[s] = sessions[s]
    BY <1>1, <1>2, <1>4, <1>5, SMT DEF ReadStartFails, TypeOK
  <2>2. UNCHANGED <<sid[sessions[s]], handle[sessions[s]], close_cb[sessions[s]]>>
    BY <1>1, <1>3, <2>1, SMT DEF ReadStartFails, Accept, TypeOK
  <2>3. s <= last_sid'
    BY <1>1, <1>2, <1>5, <2>1, SMT DEF TypeOK, Serves, Sids
  <2> QED
    BY <1>1, <2>1, <2>2, <2>3, Zenon DEF Serves
<1>10. Told'
  BY <1>1, <1>2, <1>3, <1>4, ServerAssumption, SMT DEF ReadStartFails,
     paramVars, closeVars, eventVars, Accept, handleVars, ctxVars, poolVars,
     sessionVars, Running, TypeOK, Told, Sids, ServerEnd
<1>11. Ended'
  BY <1>1, SMT DEF ReadStartFails, paramVars, closeVars, eventVars, Accept,
     handleVars, ctxVars, poolVars, sessionVars, Running, Ended
<1> QED
  BY <1>6, <1>7, <1>8, <1>9, <1>10, <1>11 DEF IInv

LEMMA OnConnectionStep ==
  ASSUME IInv, NEW c \in Ctxs, OnConnection(c)
  PROVE  IInv'
<1>1. TypeOK /\ CtxsOwned /\ CallbacksFindTheirs /\ Serves /\ Told /\ Ended
  BY DEF IInv
<1>2. /\ handle[c] = "none" /\ CtxsOwned'
      /\ alloc' \subseteq Ctxs /\ avail_ctxs' \in Seq(Ctxs)
      /\ last_sid' \in Sids /\ last_sid' \notin Live /\ last_sid' = last_sid + 1
      /\ \A s \in Live : sessions[s] # c
  BY AcceptTakes DEF OnConnection
<1>3. /\ NoCtx \notin Ctxs /\ \A d \in Ctxs : d \in Handles
      /\ NULL \notin Sids
  BY ServerAssumption, SMT DEF Handles, Sids, NULL
<1>4. /\ announced' \in Seq(Sids)
      /\ Range(announced)' = Range(announced) \cup {last_sid'}
  BY <1>1, <1>2, WithOneMore DEF OnConnection, TypeOK
<1>5. Live' = Live \cup {last_sid'}
  BY <1>1, <1>2, <1>3, SMT DEF OnConnection, paramVars, closeVars, Accept,
     handleVars, ctxVars, poolVars, sessionVars, eventVars, Running, Live,
     TypeOK
<1>6. \A s \in Live : s \in Sids /\ sessions[s] \in Ctxs
  BY <1>1 DEF Live, TypeOK
<1>7. TypeOK'
  BY <1>1, <1>2, <1>3, <1>4, <1>5, ServerAssumption, SMT DEF OnConnection,
     paramVars, closeVars, Accept, handleVars, ctxVars, poolVars, sessionVars,
     eventVars, Running, TypeOK, NULL
<1>8. CtxsOwned'
  BY <1>2
<1>9. CallbacksFindTheirs'
  BY <1>1, <1>2, <1>3, <1>4, <1>5, SMT DEF OnConnection, paramVars,
     closeVars, Accept, handleVars, ctxVars, poolVars, sessionVars, eventVars,
     Running, TypeOK, CallbacksFindTheirs, Serves
<1>10. Serves'
  <2> SUFFICES ASSUME NEW s \in Live'
               PROVE  /\ s <= last_sid' /\ sid'[sessions'[s]] = s
                      /\ \/ handle'[sessions'[s]] = "open"
                         \/ /\ handle'[sessions'[s]] = "closing"
                            /\ close_cb'[sessions'[s]] = "_session_close"
    BY DEF Serves
  <2>1. CASE s \in Live
    <3>1. sessions[s] # c /\ sessions[s] \in Ctxs /\ sessions'[s] = sessions[s]
      BY <1>1, <1>2, <1>6, <2>1, SMT DEF OnConnection, TypeOK
    <3>2. UNCHANGED <<sid[sessions[s]], handle[sessions[s]], close_cb[sessions[s]]>>
      BY <1>1, <1>3, <3>1, SMT DEF OnConnection, Accept, TypeOK
    <3>3. s \in Sids /\ s <= last_sid'
      BY <1>1, <1>2, <1>6, <2>1, SMT DEF TypeOK, Serves, Sids
    <3> QED
      BY <1>1, <2>1, <3>1, <3>2, <3>3, Zenon DEF Serves
  <2>2. CASE s = last_sid'
    BY <1>1, <1>2, <1>3, <2>2, SMT DEF OnConnection, paramVars, closeVars,
       Accept, handleVars, ctxVars, poolVars, sessionVars, eventVars, Running,
       TypeOK, Sids
  <2> QED  BY <1>5, <2>1, <2>2
<1>11. Told'
  <2>1. /\ last_sid' \notin Range(told) /\ last_sid' \in 1 .. last_sid'
        /\ 1 .. last_sid \subseteq 1 .. last_sid'
    <3>1. last_sid \in Nat /\ last_sid' = last_sid + 1 /\ Range(told) \subseteq 1 .. last_sid \cup {-1}
      BY <1>1, <1>2, ServerAssumption DEF Told, TypeOK, ServerEnd
    <3> QED  BY <3>1
  <2>2. UNCHANGED <<told, is_closed>>
    BY DEF OnConnection, closeVars
  <2> QED
    BY <1>1, <1>4, <1>5, <2>1, <2>2, Zenon DEF Told
<1>12. Ended'
  BY <1>1, SMT DEF OnConnection, paramVars, closeVars, Accept, handleVars,
     ctxVars, poolVars, sessionVars, eventVars, Running, Ended
<1> QED
  BY <1>7, <1>8, <1>9, <1>10, <1>11, <1>12 DEF IInv

LEMMA OnRecvErrorStep ==
  ASSUME IInv, NEW c \in Ctxs, OnRecvError(c)
  PROVE  IInv'
<1>1. TypeOK /\ CtxsOwned /\ CallbacksFindTheirs /\ Serves /\ Told /\ Ended
  BY DEF IInv
<1>2. /\ NoCtx \notin Ctxs /\ \A d \in Ctxs : d \in Handles
      /\ NULL \notin Sids
  BY ServerAssumption, SMT DEF Handles, Sids, NULL
<1>3. \A s \in Live : s \in Sids /\ sessions[s] \in Ctxs
  BY <1>1 DEF Live, TypeOK
<1>4. PICK s \in Live :
        /\ handle[c] = "open" /\ sessions[s] = c /\ sid[c] = s
        /\ data' = [data EXCEPT ![c] = s]
        /\ handle' = [handle EXCEPT ![c] = "closing"]
        /\ close_cb' = [close_cb EXCEPT ![c] = "_session_close"]
  <2>1. parent_session[c] \in Live /\ sessions[parent_session[c]] = c
    BY <1>1 DEF OnRecvError, CallbacksFindTheirs
  <2>2. sid[c] = parent_session[c]
    BY <1>1, <2>1 DEF Serves
  <2> QED
    BY <2>1, <2>2 DEF OnRecvError
<1>5. UNCHANGED <<sid, parent_session, writes, poolVars, sessionVars, paramVars, closeVars, eventVars, aborted, Live>> /\ ~is_closed
  BY DEF OnRecvError, sessionVars, Live, Running
<1>6. TypeOK'
  BY <1>1, <1>2, <1>3, <1>4, <1>5, SMT DEF poolVars, sessionVars, paramVars,
     closeVars, eventVars, TypeOK
<1>7. CtxsOwned'
  BY <1>1, <1>2, <1>3, <1>4, <1>5, SMT DEF poolVars, sessionVars, paramVars,
     closeVars, eventVars, TypeOK, CtxsOwned, IdleOnce, IdleAllocated,
     CtxsAccountedFor, NothingPending
<1>8. CallbacksFindTheirs'
  BY <1>1, <1>2, <1>3, <1>4, <1>5, SMT DEF poolVars, sessionVars, paramVars,
     closeVars, eventVars, TypeOK, CallbacksFindTheirs
<1>9. Serves'
  BY <1>1, <1>2, <1>3, <1>4, <1>5, SMT DEF poolVars, sessionVars, paramVars,
     closeVars, eventVars, TypeOK, Serves
<1>10. Told'
  BY <1>1, <1>5, Zenon DEF closeVars, eventVars, sessionVars, Told
<1>11. Ended'
  BY <1>5, Zenon DEF closeVars, Ended
<1> QED
  BY <1>6, <1>7, <1>8, <1>9, <1>10, <1>11 DEF IInv

(* A handle whose closing is over is unknown to libuv, and owes nothing.     *)
LEMMA ClosesHandle ==
  ASSUME IInv, NEW h \in Handles, NEW cb, HandleCloses(h, cb)
  PROVE  /\ handle[h] = "closing" /\ close_cb[h] = cb /\ ~is_closed
         /\ handle' = [handle EXCEPT ![h] = "none"] /\ close_cb' = [close_cb EXCEPT ![h] = "none"]
         /\ UNCHANGED <<data, sid, parent_session, last_sid, closeVars, announced, aborted>>
         /\ handle' \in [Handles -> {"none", "open", "closing"}]
         /\ close_cb' \in [Handles ->
                             {"none", "_session_close", "RecycleSessionCtx", "AfterServerClose"}]
         /\ writes' \in [Ctxs -> Nat] /\ avail_params' \in 0 .. MAXLISTSIZE + 1 /\ params' \in Int
         /\ NothingPending'
         /\ {d \in Ctxs : handle'[d] # "none"} = {d \in Ctxs : handle[d] # "none"} \ {h}
<1>1. TypeOK /\ NothingPending
  BY DEF IInv, CtxsOwned
<1>2. /\ handle[h] = "closing" /\ close_cb[h] = cb /\ ~is_closed
      /\ handle' = [handle EXCEPT ![h] = "none"] /\ close_cb' = [close_cb EXCEPT ![h] = "none"]
      /\ writes' = [c \in Ctxs |-> IF c = h THEN 0 ELSE writes[c]]
      /\ UNCHANGED <<data, sid, parent_session, last_sid, closeVars, announced, aborted>>
      /\ RecycleParams(IF h \in Ctxs THEN writes[h] ELSE 0)
  BY DEF HandleCloses, Running
<1>3. /\ handle' \in [Handles -> {"none", "open", "closing"}]
      /\ close_cb' \in [Handles ->
                          {"none", "_session_close", "RecycleSessionCtx", "AfterServerClose"}]
      /\ writes' \in [Ctxs -> Nat]
  BY <1>1, <1>2 DEF TypeOK
<1>4. avail_params' \in 0 .. MAXLISTSIZE + 1 /\ params' \in Int
  <2>1. PICK n \in Nat : RecycleParams(n)
    BY <1>1, <1>2 DEF TypeOK
  <2> QED
    BY <1>1, <2>1, ServerAssumption, SMT DEF TypeOK, RecycleParams, RecycledParams
<1>5. \A d \in Ctxs : d \in Handles /\ (handle'[d] = "none" <=> d = h \/ handle[d] = "none")
  BY <1>1, <1>2 DEF TypeOK, Handles
<1>6. NothingPending' /\ {d \in Ctxs : handle'[d] # "none"} = {d \in Ctxs : handle[d] # "none"} \ {h}
  BY <1>1, <1>2, <1>5, Zenon DEF NothingPending
<1> QED
  BY <1>2, <1>3, <1>4, <1>6

(* A ctx that comes back from its handle is idle or freed.                   *)
LEMMA ComesBack ==
  ASSUME IInv, NEW c \in Ctxs, NEW cb, HandleCloses(c, cb),
         avail_ctxs' = Recycled(avail_ctxs, c), alloc' = Kept(avail_ctxs, alloc, c)
  PROVE  CtxsOwned' /\ alloc' \subseteq Ctxs /\ avail_ctxs' \in Seq(Ctxs)
<1>1. TypeOK /\ CtxsOwned
  BY DEF IInv
<1>2. c \in Handles
  BY DEF Handles
<1>3. /\ handle[c] = "closing" /\ NothingPending'
      /\ {d \in Ctxs : handle'[d] # "none"} = {d \in Ctxs : handle[d] # "none"} \ {c}
  BY <1>2, ClosesHandle
<1>4. /\ avail_ctxs \in Seq(Ctxs) /\ IsInjective(avail_ctxs) /\ Range(avail_ctxs) \subseteq alloc
      /\ alloc \subseteq Ctxs
      /\ {d \in Ctxs : handle[d] # "none"} = alloc \ Range(avail_ctxs)
  BY <1>1 DEF TypeOK, CtxsOwned, IdleOnce, IdleAllocated, CtxsAccountedFor
<1>5. c \in alloc /\ c \notin Range(avail_ctxs)
  BY <1>3, <1>4
<1>6. /\ avail_ctxs' \in Seq(Ctxs) /\ IsInjective(avail_ctxs)'
      /\ alloc' \subseteq Ctxs /\ Range(avail_ctxs)' \subseteq alloc'
      /\ alloc' \ Range(avail_ctxs)' = (alloc \ Range(avail_ctxs)) \ {c}
  <2>1. /\ Recycled(avail_ctxs, c) \in Seq(Ctxs) /\ IsInjective(Recycled(avail_ctxs, c))
        /\ Kept(avail_ctxs, alloc, c) \subseteq Ctxs
        /\ Range(Recycled(avail_ctxs, c)) \subseteq Kept(avail_ctxs, alloc, c)
        /\ Kept(avail_ctxs, alloc, c) \ Range(Recycled(avail_ctxs, c))
             = (alloc \ Range(avail_ctxs)) \ {c}
    BY <1>4, <1>5, RecycleTakes, Zenon
  <2> QED
    BY <2>1, Zenon
<1> QED
  BY <1>3, <1>4, <1>6, Zenon DEF CtxsOwned, IdleOnce, IdleAllocated, CtxsAccountedFor

LEMMA RecycleSessionCtxStep ==
  ASSUME IInv, NEW c \in Ctxs, RecycleSessionCtx(c)
  PROVE  IInv'
<1>1. TypeOK /\ CtxsOwned /\ CallbacksFindTheirs /\ Serves /\ Told /\ Ended
  BY DEF IInv
<1>2. /\ NoCtx \notin Ctxs /\ \A d \in Ctxs : d \in Handles
      /\ NULL \notin Sids
  BY ServerAssumption, SMT DEF Handles, Sids, NULL
<1>3. \A s \in Live : s \in Sids /\ sessions[s] \in Ctxs
  BY <1>1 DEF Live, TypeOK
<1>4. /\ handle[c] = "closing" /\ close_cb[c] = "RecycleSessionCtx" /\ ~is_closed
      /\ handle' = [handle EXCEPT ![c] = "none"] /\ close_cb' = [close_cb EXCEPT ![c] = "none"]
      /\ UNCHANGED <<data, sid, parent_session, last_sid, closeVars, announced, aborted>>
      /\ handle' \in [Handles -> {"none", "open", "closing"}]
      /\ close_cb' \in [Handles ->
                          {"none", "_session_close", "RecycleSessionCtx", "AfterServerClose"}]
      /\ writes' \in [Ctxs -> Nat] /\ avail_params' \in 0 .. MAXLISTSIZE + 1 /\ params' \in Int
  BY <1>2, ClosesHandle DEF RecycleSessionCtx
<1>5. CtxsOwned' /\ alloc' \subseteq Ctxs /\ avail_ctxs' \in Seq(Ctxs)
  BY ComesBack DEF RecycleSessionCtx
<1>6. UNCHANGED <<sessions, told, Live>> /\ \A t \in Live : sessions[t] # c
  BY <1>1, <1>4, Zenon DEF RecycleSessionCtx, Live, Serves
<1>7. TypeOK'
  BY <1>1, <1>2, <1>3, <1>4, <1>5, <1>6, SMT DEF closeVars, TypeOK
<1>8. CtxsOwned'
  BY <1>5
<1>9. CallbacksFindTheirs'
  BY <1>1, <1>2, <1>3, <1>4, <1>5, <1>6, SMT DEF TypeOK, CallbacksFindTheirs,
     Serves
<1>10. Serves'
  BY <1>1, <1>2, <1>3, <1>4, <1>5, <1>6, SMT DEF TypeOK, Serves
<1>11. Told'
  BY <1>1, <1>4, <1>6, Zenon DEF closeVars, Told
<1>12. Ended'
  BY <1>4, Zenon DEF closeVars, Ended
<1> QED
  BY <1>7, <1>8, <1>9, <1>10, <1>11, <1>12 DEF IInv

LEMMA SessionClosedStep ==
  ASSUME IInv, NEW c \in Ctxs, SessionClosed(c)
  PROVE  IInv'
<1>1. TypeOK /\ CtxsOwned /\ CallbacksFindTheirs /\ Serves /\ Told /\ Ended
  BY DEF IInv
<1>2. /\ NoCtx \notin Ctxs /\ \A d \in Ctxs : d \in Handles
      /\ NULL \notin Sids
  BY ServerAssumption, SMT DEF Handles, Sids, NULL
<1>3. \A s \in Live : s \in Sids /\ sessions[s] \in Ctxs
  BY <1>1 DEF Live, TypeOK
<1>4. /\ handle[c] = "closing" /\ close_cb[c] = "_session_close" /\ ~is_closed
      /\ handle' = [handle EXCEPT ![c] = "none"] /\ close_cb' = [close_cb EXCEPT ![c] = "none"]
      /\ UNCHANGED <<data, sid, parent_session, last_sid, closeVars, announced, aborted>>
      /\ handle' \in [Handles -> {"none", "open", "closing"}]
      /\ close_cb' \in [Handles ->
                          {"none", "_session_close", "RecycleSessionCtx", "AfterServerClose"}]
      /\ writes' \in [Ctxs -> Nat] /\ avail_params' \in 0 .. MAXLISTSIZE + 1 /\ params' \in Int
  BY <1>2, ClosesHandle DEF SessionClosed
<1>5. PICK s \in Live :
        /\ sid[c] = s /\ sessions[s] = c /\ told' = Append(told, s)
        /\ avail_ctxs' = Recycled(avail_ctxs, c) /\ alloc' = Kept(avail_ctxs, alloc, c)
        /\ sessions' = [sessions EXCEPT ![s] = NoCtx]
  <2>1. data[c] \in Live /\ sessions[data[c]] = c /\ sid[c] = data[c]
    BY <1>1, <1>4 DEF CallbacksFindTheirs
  <2> QED
    BY <2>1 DEF SessionClosed
<1>6. CtxsOwned' /\ alloc' \subseteq Ctxs /\ avail_ctxs' \in Seq(Ctxs)
  <2>1. HandleCloses(c, "_session_close")
    BY DEF SessionClosed
  <2>2. avail_ctxs' = Recycled(avail_ctxs, c) /\ alloc' = Kept(avail_ctxs, alloc, c)
    BY <1>5
  <2> QED
    BY <2>1, <2>2, ComesBack
<1>7. /\ Live' = Live \ {s}
      /\ \A t \in Live \ {s} : sessions'[t] = sessions[t] /\ sessions[t] # c
  <2>1. \A t \in Live \ {s} : sessions[t] # c
    BY <1>1, <1>5 DEF Serves
  <2>2. \A t \in Sids : sessions'[t] = IF t = s THEN NoCtx ELSE sessions[t]
    BY <1>1, <1>5 DEF TypeOK
  <2>3. Live' = Live \ {s}
    BY <2>2 DEF Live
  <2> QED
    BY <1>3, <2>1, <2>2, <2>3
<1>8. /\ told' \in Seq(Sids \cup {ServerEnd})
      /\ Range(told') = Range(told) \cup {s}
  <2>1. told \in Seq(Sids \cup {ServerEnd}) /\ s \in Sids \cup {ServerEnd}
    BY <1>1, <1>3 DEF TypeOK
  <2>2. /\ Append(told, s) \in Seq(Sids \cup {ServerEnd})
        /\ Range(Append(told, s)) = Range(told) \cup {s}
    BY <2>1, WithOneMore
  <2> QED
    BY <1>5, <2>2, Zenon
<1>9. TypeOK'
  BY <1>1, <1>2, <1>3, <1>4, <1>5, <1>6, <1>7, <1>8, SMT DEF closeVars,
     eventVars, TypeOK
<1>10. CtxsOwned'
  BY <1>6
<1>11. CallbacksFindTheirs'
  BY <1>1, <1>2, <1>3, <1>4, <1>5, <1>6, <1>7, <1>8, SMT DEF TypeOK,
     CallbacksFindTheirs, Serves
<1>12. Serves'
  BY <1>1, <1>2, <1>3, <1>4, <1>5, <1>6, <1>7, <1>8, SMT DEF TypeOK, Serves
<1>13. Told'
  <2>1. s \in 1 .. last_sid /\ s # ServerEnd
    BY <1>1, <1>3, <1>5, SMT DEF Serves, Sids, ServerEnd, TypeOK
  <2> QED
    BY <1>1, <1>4, <1>7, <1>8, <2>1, Zenon DEF closeVars, Told
<1>14. Ended'
  BY <1>4, Zenon DEF closeVars, Ended
<1> QED
  BY <1>9, <1>10, <1>11, <1>12, <1>13, <1>14 DEF IInv

LEMMA AfterServerCloseStep ==
  ASSUME IInv, NEW h \in Handles, AfterServerClose(h)
  PROVE  IInv'
<1>1. TypeOK /\ CtxsOwned /\ CallbacksFindTheirs /\ Serves /\ Told /\ Ended
  BY DEF IInv
<1>2. /\ NoCtx \notin Ctxs /\ \A d \in Ctxs : d \in Handles
      /\ NULL \notin Sids
  BY ServerAssumption, SMT DEF Handles, Sids, NULL
<1>3. \A s \in Live : s \in Sids /\ sessions[s] \in Ctxs
  BY <1>1 DEF Live, TypeOK
<1>4. /\ handle[h] = "closing" /\ close_cb[h] = "AfterServerClose" /\ ~is_closed
      /\ handle' = [handle EXCEPT ![h] = "none"] /\ close_cb' = [close_cb EXCEPT ![h] = "none"]
      /\ UNCHANGED <<data, sid, parent_session, last_sid, closeVars, announced, aborted>>
      /\ handle' \in [Handles -> {"none", "open", "closing"}]
      /\ close_cb' \in [Handles ->
                          {"none", "_session_close", "RecycleSessionCtx", "AfterServerClose"}]
      /\ writes' \in [Ctxs -> Nat] /\ avail_params' \in 0 .. MAXLISTSIZE + 1 /\ params' \in Int
      /\ NothingPending'
      /\ {d \in Ctxs : handle'[d] # "none"} = {d \in Ctxs : handle[d] # "none"} \ {h}
      /\ UNCHANGED <<poolVars, sessions, told, Live>>
  BY ClosesHandle DEF AfterServerClose, Live
<1>5. h \notin Ctxs
  BY <1>1, <1>4 DEF CallbacksFindTheirs
<1>6. {d \in Ctxs : handle[d] # "none"} \ {h} = {d \in Ctxs : handle[d] # "none"}
  BY <1>5
<1>7. TypeOK'
  BY <1>1, <1>4, Zenon DEF poolVars, closeVars, TypeOK
<1>8. CtxsOwned'
  BY <1>1, <1>4, <1>6, Zenon DEF poolVars, CtxsOwned, IdleOnce,
     IdleAllocated, CtxsAccountedFor, NothingPending
<1>9. CallbacksFindTheirs'
  BY <1>1, <1>2, <1>3, <1>4, <1>5, SMT DEF TypeOK, CallbacksFindTheirs, Serves
<1>10. Serves'
  BY <1>1, <1>2, <1>3, <1>4, <1>5, SMT DEF TypeOK, Serves
<1>11. Told'
  BY <1>1, <1>4, Zenon DEF closeVars, Told
<1>12. Ended'
  BY <1>4, Zenon DEF closeVars, Ended
<1> QED
  BY <1>7, <1>8, <1>9, <1>10, <1>11, <1>12 DEF IInv

LEMMA LoopEndsStep ==
  ASSUME IInv, LoopEnds
  PROVE  IInv'
<1>1. TypeOK /\ CtxsOwned /\ CallbacksFindTheirs /\ Serves /\ Told /\ Ended
  BY DEF IInv
<1>2. /\ NoCtx \notin Ctxs /\ \A d \in Ctxs : d \in Handles
      /\ NULL \notin Sids
  BY ServerAssumption, SMT DEF Handles, Sids, NULL
<1>3. \A s \in Live : s \in Sids /\ sessions[s] \in Ctxs
  BY <1>1 DEF Live, TypeOK
<1>4. Live = {}
  BY <1>1, <1>2, <1>3 DEF LoopEnds, Serves
<1>5. /\ told' \in Seq(Sids \cup {ServerEnd}) /\ Range(told') = Range(told) \cup {ServerEnd}
      /\ is_closed' = TRUE /\ is_user_closed' = FALSE /\ ~is_closed
      /\ UNCHANGED <<handleVars, ctxVars, poolVars, sessionVars, paramVars, async_pending,
                     closer, announced, aborted, Live>>
      /\ \A h \in Handles : handle[h] = "none"
  <2>1. told \in Seq(Sids \cup {ServerEnd}) /\ ServerEnd \in Sids \cup {ServerEnd}
    BY <1>1 DEF TypeOK
  <2>2. /\ Append(told, ServerEnd) \in Seq(Sids \cup {ServerEnd})
        /\ Range(Append(told, ServerEnd)) = Range(told) \cup {ServerEnd}
    BY <2>1, WithOneMore
  <2> QED
    BY <2>2, Zenon DEF LoopEnds, Running, sessionVars, Live
<1>6. TypeOK'
  BY <1>1, <1>5, Zenon DEF handleVars, ctxVars, poolVars, sessionVars,
     paramVars, TypeOK
<1>7. CtxsOwned'
  BY <1>1, <1>5, Zenon DEF handleVars, ctxVars, poolVars, sessionVars,
     paramVars, CtxsOwned, IdleOnce, IdleAllocated, CtxsAccountedFor,
     NothingPending
<1>8. CallbacksFindTheirs'
  BY <1>1, <1>5, Zenon DEF handleVars, ctxVars, poolVars, sessionVars,
     paramVars, CallbacksFindTheirs
<1>9. Serves'
  BY <1>1, <1>5, Zenon DEF handleVars, ctxVars, poolVars, sessionVars,
     paramVars, Serves
<1>10. Told'
  <2>1. ServerEnd \notin 1 .. last_sid
    BY <1>1 DEF ServerEnd, TypeOK
  <2> QED
    BY <1>1, <1>4, <1>5, <2>1, Zenon DEF sessionVars, Told
<1>11. Ended'
  BY <1>5, Zenon DEF handleVars, Ended
<1> QED
  BY <1>6, <1>7, <1>8, <1>9, <1>10, <1>11 DEF IInv

LEMMA AsyncCloseCBStep ==
  ASSUME IInv, AsyncCloseCB
  PROVE  IInv'
<1>1. TypeOK /\ CtxsOwned /\ CallbacksFindTheirs /\ Serves /\ Told /\ Ended
  BY DEF IInv
<1>2. /\ NoCtx \notin Ctxs /\ \A d \in Ctxs : d \in Handles
      /\ NULL \notin Sids
  BY ServerAssumption, SMT DEF Handles, Sids, NULL
<1>3. \A s \in Live : s \in Sids /\ sessions[s] \in Ctxs
  BY <1>1 DEF Live, TypeOK
<1>4. DEFINE theirs == IF is_user_closed THEN {sessions[s] : s \in Live} ELSE {}
             walked == IF is_user_closed THEN {h \in Handles \ theirs : handle[h] = "open"} ELSE {}
<1>5. /\ ~is_closed /\ async_pending' = FALSE
      /\ UNCHANGED <<sid, parent_session, writes, poolVars, sessionVars, paramVars,
                     is_user_closed, is_closed, closer, eventVars, Live>>
  BY DEF AsyncCloseCB, Running, sessionVars, Live
<1>6. CASE aborted' = TRUE /\ UNCHANGED <<handleVars, data>>
  <2>1. TypeOK'
    BY <1>1, <1>5, <1>6, Zenon DEF poolVars, sessionVars, paramVars,
       eventVars, handleVars, TypeOK
  <2>2. CtxsOwned'
    BY <1>1, <1>5, <1>6, Zenon DEF poolVars, sessionVars, paramVars,
       eventVars, handleVars, CtxsOwned, IdleOnce, IdleAllocated,
       CtxsAccountedFor, NothingPending
  <2>3. CallbacksFindTheirs'
    BY <1>1, <1>5, <1>6, Zenon DEF poolVars, sessionVars, paramVars,
       eventVars, handleVars, CallbacksFindTheirs
  <2>4. Serves'
    BY <1>1, <1>5, <1>6, Zenon DEF poolVars, sessionVars, paramVars,
       eventVars, handleVars, Serves
  <2>5. Told'
    BY <1>1, <1>5, <1>6, Zenon DEF poolVars, sessionVars, paramVars,
       eventVars, handleVars, Told
  <2>6. Ended'
    BY <1>1, <1>5, <1>6, Zenon DEF poolVars, sessionVars, paramVars,
       eventVars, handleVars, Ended
  <2> QED
    BY <2>1, <2>2, <2>3, <2>4, <2>5, <2>6 DEF IInv
<1>7. CASE ~is_user_closed
  <2>1. UNCHANGED <<handle, close_cb, data, aborted>>
    BY <1>1, <1>7, SMT DEF AsyncCloseCB, TypeOK
  <2>2. TypeOK'
    BY <1>1, <1>5, <2>1, Zenon DEF poolVars, sessionVars, paramVars,
       eventVars, TypeOK
  <2>3. CtxsOwned'
    BY <1>1, <1>5, <2>1, Zenon DEF poolVars, sessionVars, paramVars,
       eventVars, CtxsOwned, IdleOnce, IdleAllocated, CtxsAccountedFor,
       NothingPending
  <2>4. CallbacksFindTheirs'
    BY <1>1, <1>5, <2>1, Zenon DEF poolVars, sessionVars, paramVars,
       eventVars, CallbacksFindTheirs
  <2>5. Serves'
    BY <1>1, <1>5, <2>1, Zenon DEF poolVars, sessionVars, paramVars,
       eventVars, Serves
  <2>6. Told'
    BY <1>1, <1>5, <2>1, Zenon DEF poolVars, sessionVars, paramVars,
       eventVars, Told
  <2>7. Ended'
    BY <1>1, <1>5, <2>1, Zenon DEF poolVars, sessionVars, paramVars,
       eventVars, Ended
  <2> QED
    BY <2>2, <2>3, <2>4, <2>5, <2>6, <2>7 DEF IInv
<1>8. CASE is_user_closed /\ ~(aborted' = TRUE /\ UNCHANGED <<handleVars, data>>)
  <2>1. /\ ~\E c \in theirs : handle[c] = "closing"
        /\ data' = [c \in Ctxs |-> IF c \in theirs THEN SessionOf(c) ELSE data[c]]
        /\ handle' = [h \in Handles |->
                        IF h \in theirs \cup walked THEN "closing" ELSE handle[h]]
        /\ close_cb' = [h \in Handles |-> IF h \in theirs THEN "_session_close"
                                          ELSE IF h \in walked THEN "AfterServerClose"
                                          ELSE close_cb[h]]
        /\ UNCHANGED aborted
    BY <1>8, Zenon DEF AsyncCloseCB
  <2>2. theirs = {c \in Ctxs : handle[c] = "open"}
    <3>1. ASSUME NEW c \in theirs PROVE c \in Ctxs /\ handle[c] = "open"
      <4>1. PICK s \in Live : sessions[s] = c
        BY <1>8, <3>1, Zenon
      <4>2. handle[c] = "open" \/ handle[c] = "closing"
        BY <1>1, <4>1, Zenon DEF Serves
      <4> QED  BY <1>3, <2>1, <3>1, <4>1, <4>2, Zenon
    <3>2. ASSUME NEW c \in Ctxs, handle[c] = "open" PROVE c \in theirs
      BY <1>1, <1>8, <3>2, Zenon DEF CallbacksFindTheirs
    <3> QED  BY <3>1, <3>2
  <2>3. \A c \in Ctxs : c \notin walked
    BY <2>2, Zenon
  <2>4. \A c \in theirs : SessionOf(c) \in Live /\ sessions[SessionOf(c)] = c /\ sid[c] = SessionOf(c)
    <3> SUFFICES ASSUME NEW c \in theirs
                 PROVE  SessionOf(c) \in Live /\ sessions[SessionOf(c)] = c /\ sid[c] = SessionOf(c)
      OBVIOUS
    <3>1. PICK s \in Live : sessions[s] = c
      BY <1>8, Zenon
    <3>2. SessionOf(c) \in Live /\ sessions[SessionOf(c)] = c
      BY <3>1, Zenon DEF SessionOf
    <3> QED  BY <1>1, <3>2, Zenon DEF Serves
  <2>5. \A c \in Ctxs :
          IF handle[c] = "open"
          THEN /\ handle'[c] = "closing" /\ close_cb'[c] = "_session_close"
               /\ data'[c] \in Live /\ sessions[data'[c]] = c /\ sid[c] = data'[c]
          ELSE handle'[c] = handle[c] /\ close_cb'[c] = close_cb[c] /\ data'[c] = data[c]
    <3> SUFFICES ASSUME NEW c \in Ctxs
                 PROVE  IF handle[c] = "open"
                        THEN /\ handle'[c] = "closing" /\ close_cb'[c] = "_session_close"
                             /\ data'[c] \in Live /\ sessions[data'[c]] = c /\ sid[c] = data'[c]
                        ELSE handle'[c] = handle[c] /\ close_cb'[c] = close_cb[c] /\ data'[c] = data[c]
      OBVIOUS
    <3>1. c \in theirs <=> handle[c] = "open"
      BY <2>2, Zenon
    <3> HIDE DEF theirs, walked
    <3> QED  BY <1>2, <2>1, <2>3, <2>4, <3>1
  <2>6. /\ handle' \in [Handles -> {"none", "open", "closing"}]
        /\ close_cb' \in [Handles ->
                            {"none", "_session_close", "RecycleSessionCtx", "AfterServerClose"}]
        /\ data' \in [Ctxs -> Sids \cup {NULL}]
    <3>1. \A c \in theirs : SessionOf(c) \in Sids
      BY <1>3, <2>4, Zenon
    <3> HIDE DEF theirs, walked, SessionOf
    <3> QED  BY <1>1, <2>1, <3>1 DEF TypeOK
  <2> HIDE DEF theirs, walked
  <2>7. TypeOK'
    BY <1>1, <1>5, <2>1, <2>6, Zenon DEF poolVars, sessionVars, paramVars,
       eventVars, TypeOK
  <2>8. CtxsOwned'
    <3>1. \A c \in Ctxs : handle'[c] = "none" <=> handle[c] = "none"
      BY <2>5
    <3> QED
      BY <1>1, <1>5, <3>1, Zenon DEF poolVars, sessionVars, paramVars,
         eventVars, CtxsOwned, IdleOnce, IdleAllocated, CtxsAccountedFor,
         NothingPending
  <2>9. CallbacksFindTheirs'
    BY <1>1, <1>5, <2>5, SMT DEF poolVars, sessionVars, paramVars, eventVars,
       CallbacksFindTheirs
  <2>10. Serves'
    BY <1>1, <1>3, <1>5, <2>5, SMT DEF poolVars, sessionVars, paramVars,
       eventVars, Serves
  <2>11. Told'
    BY <1>1, <1>5, Zenon DEF poolVars, sessionVars, paramVars, eventVars, Told
  <2>12. Ended'
    BY <1>5, Zenon DEF Ended
  <2> QED
    BY <2>7, <2>8, <2>9, <2>10, <2>11, <2>12 DEF IInv
<1> QED
  BY <1>6, <1>7, <1>8

LEMMA ServerStep ==
  ASSUME IInv, [Next]_vars
  PROVE  IInv'
<1>1. ASSUME NEW c \in Ctxs,
             \/ TcpInitFails(c) \/ ReadStartFails(c) \/ OnConnection(c)
             \/ SendTaken(c) \/ SendRefused(c) \/ OnSend(c) \/ OnRecvError(c)
      PROVE  IInv'
  BY <1>1, TcpInitFailsStep, ReadStartFailsStep, OnConnectionStep, SendTakenStep,
     SendRefusedStep, OnSendStep, OnRecvErrorStep
<1>2. CASE CloseCallback
  BY <1>2, SessionClosedStep, RecycleSessionCtxStep, AfterServerCloseStep DEF
     CloseCallback
<1>3. CASE Close \/ CloseFlag \/ CloseSignal \/ AsyncCloseCB \/ LoopEnds
  BY <1>3, CloseStep, CloseFlagStep, CloseSignalStep, AsyncCloseCBStep, LoopEndsStep
<1>4. CASE UNCHANGED vars
  BY <1>4 DEF vars, handleVars, ctxVars, poolVars, paramVars, sessionVars,
     closeVars, eventVars, IInv, TypeOK, CtxsOwned, CallbacksFindTheirs, Serves,
     Told, Ended, IdleOnce, IdleAllocated, CtxsAccountedFor, NothingPending,
     Live
<1> QED
  BY <1>1, <1>2, <1>3, <1>4 DEF Next

LEMMA ServerIInv == Spec => []IInv
  BY ServerInit, ServerStep, PTL DEF Spec

-----------------------------------------------------------------------------
(* The params, counted by the writes they are in.                            *)
(* A stream's part of the unanswered writes.                                 *)
LEMMA WritesOf ==
  ASSUME NEW h, NEW n \in Nat
  PROVE  IsFiniteSet({h} \X (1 .. n)) /\ Cardinality({h} \X (1 .. n)) = n
<1>1. IsFiniteSet(1 .. n) /\ Cardinality(1 .. n) = n
  <2>1. IsFiniteSet(1 .. n) /\ Cardinality(1 .. n) = IF 1 > n THEN 0 ELSE n - 1 + 1
    BY FS_Interval
  <2> QED  BY <2>1, SMT
<1>2. IsFiniteSet({h}) /\ Cardinality({h}) = 1
  BY FS_Singleton, Zenon
<1>3. /\ IsFiniteSet({h} \X (1 .. n))
      /\ Cardinality({h} \X (1 .. n)) = Cardinality({h}) * Cardinality(1 .. n)
  BY <1>1, <1>2, FS_Product
<1> QED
  BY <1>1, <1>2, <1>3, SMT

(* A write is known by its stream and its place among the stream's.          *)
LEMMA WritesAre ==
  ASSUME NEW f \in [Ctxs -> Nat], NEW U, U = UNION {{c} \X (1 .. f[c]) : c \in Ctxs}
  PROVE  /\ U \subseteq Ctxs \X Nat
         /\ \A c \in Ctxs : \A i \in Nat : <<c, i>> \in U <=> 1 <= i /\ i <= f[c]
<1>1. \A w : w \in U <=> \E c \in Ctxs : w \in {c} \X (1 .. f[c])
  OBVIOUS
<1>2. ASSUME NEW c \in Ctxs
      PROVE  /\ {c} \X (1 .. f[c]) \subseteq Ctxs \X Nat
             /\ \A d \in Ctxs : \A i \in Nat : 
                  <<d, i>> \in {c} \X (1 .. f[c]) <=> d = c /\ 1 <= i /\ i <= f[c]
  <2>1. f[c] \in Nat
    OBVIOUS
  <2>2. 1 .. f[c] \subseteq Nat
    BY <2>1
  <2>3. \A d, i : <<d, i>> \in {c} \X (1 .. f[c]) <=> d = c /\ i \in 1 .. f[c]
    BY SMT
  <2>4. \A i \in Nat : i \in 1 .. f[c] <=> 1 <= i /\ i <= f[c]
    BY <2>1
  <2> QED
    BY <2>2, <2>3, <2>4
<1>3. U \subseteq Ctxs \X Nat
  <2>1. \A c \in Ctxs : {c} \X (1 .. f[c]) \subseteq Ctxs \X Nat
    BY <1>2, Zenon
  <2> QED
    BY <1>1, <2>1, Zenon
<1>4. ASSUME NEW c \in Ctxs, NEW i \in Nat
      PROVE  <<c, i>> \in U <=> 1 <= i /\ i <= f[c]
  <2>1. <<c, i>> \in U <=> \E d \in Ctxs : <<c, i>> \in {d} \X (1 .. f[d])
    BY <1>1
  <2>2. \A d \in Ctxs : <<c, i>> \in {d} \X (1 .. f[d]) <=> c = d /\ 1 <= i /\ i <= f[d]
    BY <1>2
  <2> QED
    BY <2>1, <2>2, Zenon
<1> QED
  BY <1>3, <1>4, Zenon

(* Two sets of pairs are equal if they have the same pairs.                  *)
LEMMA SamePairs ==
  ASSUME NEW A, NEW B, NEW U, NEW V, U \subseteq A \X B, V \subseteq A \X B,
         \A a \in A : \A b \in B : <<a, b>> \in U <=> <<a, b>> \in V
  PROVE  U = V
<1>1. ASSUME NEW w \in A \X B
      PROVE  w \in U <=> w \in V
  <2>1. PICK a \in A, b \in B : w = <<a, b>>
    BY SMT
  <2> QED  BY <2>1
<1> QED
  BY <1>1

(* The count makes sense since only finitely many writes are under way.      *)
ParamsInv == IsFiniteSet(Unanswered) /\ ParamsConserved

(* At first nothing is allocated and no write is under way.                  *)
LEMMA ParamsInit == Init => ParamsInv
<1> SUFFICES ASSUME Init PROVE ParamsInv
  OBVIOUS
<1>1. \A c \in Ctxs : writes[c] = 0
  BY DEF Init
<1>2. Unanswered = {}
  <2>1. \A c \in Ctxs : {c} \X (1 .. writes[c]) = {}
    BY <1>1, SMT
  <2> QED  BY <2>1, Zenon DEF Unanswered
<1>3. IsFiniteSet(Unanswered) /\ Cardinality(Unanswered) = 0
  BY <1>2, FS_EmptySet, Zenon
<1>4. params = 0 /\ avail_params = 0
  BY DEF Init
<1> QED
  BY <1>3, <1>4, SMT DEF ParamsInv, ParamsConserved

(* What the callbacks of libuv and the calls of _send do to the params.      *)
LEMMA ParamsStep ==
  ASSUME TypeOK, TypeOK', ParamsInv, [Next]_vars
  PROVE  ParamsInv'
<1>1. writes \in [Ctxs -> Nat] /\ writes' \in [Ctxs -> Nat]
  BY DEF TypeOK
<1>1a. /\ params \in Int /\ avail_params \in Int /\ params' \in Int /\ avail_params' \in Int
  BY ServerAssumption DEF TypeOK
<1>2. /\ IsFiniteSet(Unanswered) /\ params = avail_params + Cardinality(Unanswered)
      /\ Cardinality(Unanswered) \in Nat
  BY FS_CardinalityType DEF ParamsInv, ParamsConserved
<1> DEFINE Was == Unanswered
           Now == Unanswered'
<1>3. /\ Was \subseteq Ctxs \X Nat
      /\ \A c \in Ctxs : \A i \in Nat : <<c, i>> \in Was <=> 1 <= i /\ i <= writes[c]
  BY <1>1, WritesAre DEF Unanswered
<1>4. /\ Now \subseteq Ctxs \X Nat
      /\ \A c \in Ctxs : \A i \in Nat : <<c, i>> \in Now <=> 1 <= i /\ i <= writes'[c]
  BY <1>1, WritesAre DEF Unanswered
<1>5. ASSUME UNCHANGED <<writes, params, avail_params>>
      PROVE  ParamsInv'
  <2>1. Now = Was
    BY <1>5 DEF Unanswered
  <2> QED
    BY <1>2, <1>5, <2>1, Zenon DEF ParamsInv, ParamsConserved
<1>6. ASSUME NEW c \in Ctxs, SendTaken(c)
      PROVE  ParamsInv'
  <2> DEFINE w == <<c, writes[c] + 1>>
  <2>1. writes' = [writes EXCEPT ![c] = @ + 1] /\ writes[c] \in Nat
    BY <1>1, <1>6, Zenon DEF SendTaken
  <2>2. Now = Was \cup {w} /\ w \notin Was
    <3> HIDE DEF Was, Now
    <3>1. /\ writes'[c] = writes[c] + 1 /\ writes[c] + 1 \in Nat
          /\ \A d \in Ctxs : d # c => writes'[d] = writes[d]
      BY <1>1, <2>1, SMT
    <3>2. ASSUME NEW d \in Ctxs, NEW i \in Nat
          PROVE  <<d, i>> \in Now <=> <<d, i>> \in Was \cup {w}
      <4>1. 1 <= i /\ i <= writes'[d] <=>
              (1 <= i /\ i <= writes[d]) \/ (d = c /\ i = writes[c] + 1)
        BY <1>1, <2>1, <3>1, SMT
      <4>2. <<d, i>> = w <=> d = c /\ i = writes[c] + 1
        OBVIOUS
      <4> HIDE DEF w
      <4> QED
        BY <1>3, <1>4, <4>1, <4>2, Zenon
    <3>3. w \notin Was
      <4>1. ~(writes[c] + 1 <= writes[c])
        BY <2>1, SMT
      <4> QED
        BY <1>3, <3>1, <4>1, Zenon
    <3>4. Was \cup {w} \subseteq Ctxs \X Nat
      BY <1>3, <3>1
    <3> QED
      BY <1>4, <3>2, <3>3, <3>4, SamePairs
  <2>3. IsFiniteSet(Now) /\ Cardinality(Now) = Cardinality(Was) + 1
    <3> HIDE DEF Was, Now, w
    <3>1. IsFiniteSet(Was)
      BY <1>2 DEF Was
    <3> QED
      BY <3>1, <2>2, FS_AddElement
  <2>4. params' = params - avail_params + avail_params' + 1
    <3>1. \/ params' = params + 1 /\ avail_params' = avail_params
          \/ params' = params /\ avail_params' = avail_params - 1
      BY <1>6, Zenon DEF SendTaken
    <3>2. CASE params' = params + 1 /\ avail_params' = avail_params
      BY <1>1a, <3>2, SMT
    <3>3. CASE params' = params /\ avail_params' = avail_params - 1
      BY <1>1a, <3>3, SMT
    <3> QED
      BY <3>1, <3>2, <3>3
  <2> QED
    BY <1>1a, <1>2, <2>3, <2>4, SMT DEF ParamsInv, ParamsConserved
<1>7. ASSUME NEW c \in Ctxs, OnSend(c)
      PROVE  ParamsInv'
  <2> DEFINE w == <<c, writes[c]>>
  <2>1. /\ writes' = [writes EXCEPT ![c] = @ - 1] /\ writes[c] \in Nat /\ writes[c] > 0
    BY <1>1, <1>7, Zenon DEF OnSend
  <2>2. Now = Was \ {w} /\ w \in Was
    <3> HIDE DEF Was, Now
    <3>1. /\ writes'[c] = writes[c] - 1
          /\ \A d \in Ctxs : d # c => writes'[d] = writes[d]
      BY <1>1, <2>1, Zenon
    <3>2. ASSUME NEW d \in Ctxs, NEW i \in Nat
          PROVE  <<d, i>> \in Now <=> <<d, i>> \in Was \ {w}
      <4>1. 1 <= i /\ i <= writes'[d] <=>
              (1 <= i /\ i <= writes[d]) /\ ~(d = c /\ i = writes[c])
        BY <1>1, <2>1, <3>1, SMT
      <4>2. <<d, i>> = w <=> d = c /\ i = writes[c]
        OBVIOUS
      <4> HIDE DEF w
      <4> QED
        BY <1>3, <1>4, <4>1, <4>2, Zenon
    <3>3. w \in Was
      <4>1. 1 <= writes[c] /\ writes[c] <= writes[c]
        BY <2>1, SMT
      <4> QED
        BY <1>3, <2>1, <4>1, Zenon
    <3>4. Was \ {w} \subseteq Ctxs \X Nat
      BY <1>3
    <3> QED
      BY <1>4, <3>2, <3>3, <3>4, SamePairs
  <2>3. IsFiniteSet(Now) /\ Cardinality(Now) = Cardinality(Was) - 1
    <3> HIDE DEF Was, Now, w
    <3>1. IsFiniteSet(Was)
      BY <1>2 DEF Was
    <3> QED
      BY <3>1, <2>2, FS_RemoveElement
  <2>4. params' = params - avail_params + avail_params' - 1
    BY <1>1a, <1>7, SMT DEF OnSend, RecycleParams
  <2> QED
    BY <1>1a, <1>2, <2>3, <2>4, SMT DEF ParamsInv, ParamsConserved
<1>8. ASSUME NEW h \in Handles, NEW cb, HandleCloses(h, cb)
      PROVE  ParamsInv'
  <2>1. CASE h \in Ctxs
    <3> DEFINE Hers == {h} \X (1 .. writes[h])
    <3>1. /\ writes' = [c \in Ctxs |-> IF c = h THEN 0 ELSE writes[c]] /\ writes[h] \in Nat
      BY <1>1, <1>8, <2>1, Zenon DEF HandleCloses
    <3>2. Now = Was \ Hers /\ Hers \subseteq Was
      <4>1. Hers \subseteq Was
        BY <2>1, Zenon DEF Unanswered
      <4> HIDE DEF Was, Now
      <4>2. ASSUME NEW d \in Ctxs, NEW i \in Nat
            PROVE  <<d, i>> \in Now <=> <<d, i>> \in Was \ Hers
        <5>1. 1 <= i /\ i <= writes'[d] <=> (1 <= i /\ i <= writes[d]) /\ d # h
          BY <1>1, <2>1, <3>1, SMT
        <5>2. 1 <= i /\ i <= writes[d] => (<<d, i>> \in Hers <=> d = h)
          BY <3>1, SMT
        <5> HIDE DEF Hers
        <5> QED
          BY <1>3, <1>4, <5>1, <5>2, Zenon
      <4>3. Was \ Hers \subseteq Ctxs \X Nat
        BY <1>3, Zenon
      <4> HIDE DEF Hers
      <4> QED
        BY <1>4, <4>1, <4>2, <4>3, SamePairs
    <3>3. IsFiniteSet(Now) /\ Cardinality(Now) = Cardinality(Was) - writes[h]
      <4>1. Cardinality(Hers) = writes[h]
        BY <3>1, WritesOf
      <4> HIDE DEF Was, Now, Hers
      <4>2. IsFiniteSet(Was)
        BY <1>2 DEF Was
      <4>3. IsFiniteSet(Was \ Hers) /\ Cardinality(Was \ Hers) = Cardinality(Was) - Cardinality(Was \cap Hers)
        BY <4>2, FS_Difference
      <4>4. Was \cap Hers = Hers
        BY <3>2, Zenon
      <4> QED
        BY <3>2, <4>1, <4>3, <4>4, Zenon
    <3>4. params' = params - avail_params + avail_params' - writes[h]
      <4>1. params' = params - (avail_params + writes[h] - avail_params')
        BY <1>8, <2>1, Zenon DEF HandleCloses, RecycleParams
      <4>2. writes[h] \in Int /\ params \in Int /\ avail_params \in Int /\ avail_params' \in Int
        BY <1>1, <1>1a, <3>1
      <4> QED
        BY <4>1, <4>2, SMT
    <3> QED
      BY <1>1a, <1>2, <3>1, <3>3, <3>4, SMT DEF ParamsInv, ParamsConserved
  <2>2. CASE h \notin Ctxs
    <3>1. writes' = writes
      <4>1. writes' = [c \in Ctxs |-> IF c = h THEN 0 ELSE writes[c]]
        BY <1>8 DEF HandleCloses
      <4> QED  BY <1>1, <2>2, <4>1
    <3>2. params' = params - avail_params + avail_params'
      <4>1. params' = params - (avail_params + 0 - avail_params')
        BY <1>8, <2>2, Zenon DEF HandleCloses, RecycleParams
      <4> QED
        BY <1>1a, <4>1, SMT
    <3>3. Now = Was
      BY <3>1 DEF Unanswered
    <3> QED
      BY <1>1a, <1>2, <3>2, <3>3, SMT DEF ParamsInv, ParamsConserved
  <2> QED  BY <2>1, <2>2
<1>9. ASSUME NEW c \in Ctxs, SendRefused(c)
      PROVE  ParamsInv'
  <2>1. Now = Was
    BY <1>9 DEF SendRefused, ctxVars, Unanswered
  <2>2. params' = params - avail_params + avail_params'
    BY <1>1a, <1>9, SMT DEF SendRefused
  <2> QED
    BY <1>1a, <1>2, <2>1, <2>2, SMT DEF ParamsInv, ParamsConserved
<1>10. ASSUME NEW c \in Ctxs,
              TcpInitFails(c) \/ ReadStartFails(c) \/ OnConnection(c) \/ OnRecvError(c)
       PROVE  UNCHANGED <<writes, params, avail_params>>
  BY <1>10, Zenon DEF TcpInitFails, ReadStartFails, OnConnection, OnRecvError, paramVars
<1>11. CASE Close \/ CloseFlag \/ CloseSignal \/ AsyncCloseCB \/ LoopEnds
  <2>1. UNCHANGED <<writes, params, avail_params>>
    BY <1>11, Zenon DEF Close, CloseFlag, CloseSignal, AsyncCloseCB, LoopEnds, ctxVars, paramVars
  <2> QED  BY <1>5, <2>1
<1>12. CASE UNCHANGED vars
  BY <1>5, <1>12, Zenon DEF vars, ctxVars, paramVars
<1>13. CASE CloseCallback
  <2>1. Ctxs \subseteq Handles
    BY DEF Handles
  <2>2. PICK h \in Handles, cb \in {"_session_close", "RecycleSessionCtx", "AfterServerClose"} :
          HandleCloses(h, cb)
    BY <1>13, <2>1, Zenon DEF CloseCallback, SessionClosed, RecycleSessionCtx, AfterServerClose
  <2> QED
    BY <1>8, <2>2
<1>14. ASSUME NEW c \in Ctxs,
              TcpInitFails(c) \/ ReadStartFails(c) \/ OnConnection(c) \/ OnRecvError(c)
       PROVE  ParamsInv'
  BY <1>5, <1>10, <1>14
<1> QED
  BY <1>6, <1>7, <1>9, <1>11, <1>12, <1>13, <1>14, Zenon DEF Next

(* The writes under way are finitely many, and the params are conserved.     *)
LEMMA ServerParams == Spec => [](IInv /\ ParamsInv)
<1>1. Init => ParamsInv
  BY ParamsInit
<1>2. IInv /\ IInv' /\ ParamsInv /\ [Next]_vars => ParamsInv'
  BY ParamsStep DEF IInv
<1> QED
  BY ServerIInv, <1>1, <1>2, PTL DEF Spec

-----------------------------------------------------------------------------
(* The variables of a server have the values they are made for (_send,       *)
(* _recycle_one_param, _session_close and the rest).                         *)
THEOREM ServerTypes == Spec => []TypeOK
<1>1. IInv => TypeOK
  BY DEF IInv
<1> QED
  BY ServerIInv, <1>1, PTL

(* No SessionCtx is freed or handed out while libuv may call back with it,   *)
(* and none leaks (_fetch_one_ctx, _recycle_one_ctx).                        *)
THEOREM ServerOwnsCtxs == Spec => []CtxsOwned
<1>1. IInv => CtxsOwned
  BY DEF IInv
<1> QED
  BY ServerIInv, <1>1, PTL

(* Every callback of libuv finds behind the data field of its handle what it *)
(* takes it for, alive (OnRecv, _session_close, RecycleSessionCtx).          *)
THEOREM ServerCallbacksFindTheirs == Spec => []CallbacksFindTheirs
<1>1. IInv => CallbacksFindTheirs
  BY DEF IInv
<1> QED
  BY ServerIInv, <1>1, PTL

(* Every WriteParam is idle or in one write under way: none is lost in a     *)
(* failed or cancelled write, and none recycled twice (_send, OnSend,        *)
(* _recycle_one_param).                                                      *)
THEOREM ServerKeepsParams == Spec => []ParamsConserved
<1>1. ParamsInv => ParamsConserved
  BY DEF ParamsInv
<1> QED
  BY ServerParams, <1>1, PTL

(* When the user is told that the server has ended, no session is left, no   *)
(* write, and no memory but what the idle lists hold (_close, _start_thread).*)
THEOREM ServerEndIsClean == Spec => []EndIsClean
<1>1. IInv /\ ParamsInv => EndIsClean
  <2> SUFFICES ASSUME IInv, ParamsInv, is_closed
               PROVE  Live = {} /\ alloc = Range(avail_ctxs) /\ params = avail_params
    BY DEF EndIsClean
  <2>1. \A c \in Ctxs : handle[c] = "none"
    BY DEF IInv, Ended, Handles
  <2>2. \A s \in Live : sessions[s] \in Ctxs
    BY DEF IInv, Live, TypeOK
  <2>3. Live = {}
    BY <2>1, <2>2 DEF IInv, Serves
  <2>4. alloc \subseteq Range(avail_ctxs) /\ Range(avail_ctxs) \subseteq alloc
    BY <2>1, Zenon DEF IInv, CtxsOwned, CtxsAccountedFor, IdleAllocated
  <2>5. params = avail_params
    <3>1. \A c \in Ctxs : writes[c] = 0
      BY <2>1 DEF IInv, CtxsOwned, NothingPending
    <3>2. Unanswered = {}
      <4>1. \A c \in Ctxs : {c} \X (1 .. writes[c]) = {}
        BY <3>1, SMT
      <4> QED  BY <4>1, Zenon DEF Unanswered
    <3>3. Cardinality(Unanswered) = 0
      BY <3>2, FS_EmptySet, Zenon
    <3>4. avail_params \in Int
      BY ServerAssumption DEF IInv, TypeOK
    <3> QED
      BY <3>3, <3>4, SMT DEF ParamsInv, ParamsConserved
  <2> QED
    BY <2>3, <2>4, <2>5
<1> QED
  BY ServerParams, <1>1, PTL

(* The server calls its user back in the order of SessionEvents: every id is *)
(* new, told once after it was announced, and the end comes last             *)
(* (OnConnection, SessionClosed, _start_thread).                             *)
THEOREM ServerImplementsEvents == Spec => CallbacksInOrder
<1>1. Init => Events!Init
  BY DEF Init, Events!Init
<1>2. ASSUME IInv, IInv', [Next]_vars
      PROVE  [Events!Next]_(Events!vars)
  <2>1. IInv /\ TypeOK /\ CallbacksFindTheirs /\ Serves /\ Told
    BY <1>2 DEF IInv
  <2>2. /\ \A q : Events!ToSet(q) = Range(q)
        /\ Events!Connected = Live
        /\ Events!Ended <=> is_closed
    <3>1. \A q : Events!ToSet(q) = Range(q)
      BY Zenon DEF Events!ToSet, Range
    <3>2. Events!ToSet(announced) = Range(announced) /\ Events!ToSet(told) = Range(told)
      BY <3>1, Zenon
    <3> QED
      BY <2>1, <3>1, <3>2, Zenon DEF Told, Events!Connected, Events!Ended,
         Events!ServerEnd, ServerEnd
  <2>3. ASSUME NEW c \in Ctxs, OnConnection(c)
        PROVE  Events!NewConnect(last_sid')
    <3>1. last_sid' \notin Range(announced)
      <4>1. /\ Range(announced) \subseteq 1 .. last_sid /\ last_sid \in 0 .. MaxSid
            /\ last_sid' = last_sid + 1
        BY <2>1, <2>3, Zenon DEF Told, TypeOK, OnConnection, Accept
      <4> QED  BY <4>1, ServerAssumption, SMT
    <3> QED
      BY <2>2, <2>3, <3>1, Zenon DEF OnConnection, Accept, Running, Events!NewConnect
  <2>4. ASSUME NEW c \in Ctxs, OnConnection(c)
        PROVE  last_sid' \in Sids
    BY <2>1, <2>4, AcceptTakes DEF OnConnection
  <2>5. ASSUME NEW c \in Ctxs, SessionClosed(c)
        PROVE  \E s \in Sids : Events!SessionEnds(s)
    <3>1. c \in Handles
      BY DEF Handles
    <3>2. handle[c] = "closing" /\ close_cb[c] = "_session_close" /\ UNCHANGED announced
      BY <2>1, <2>5, <3>1, ClosesHandle DEF SessionClosed
    <3>3. data[c] \in Live /\ sid[c] = data[c]
      BY <2>1, <3>2 DEF CallbacksFindTheirs
    <3>4. sid[c] \in Events!Connected /\ told' = Append(told, sid[c]) /\ sid[c] \in Sids
      BY <2>2, <2>5, <3>3 DEF SessionClosed, Live
    <3> QED
      BY <3>2, <3>4 DEF Events!SessionEnds
  <2>6. CASE LoopEnds
    <3>1. Live' = Live /\ is_closed'
      BY <2>6 DEF LoopEnds, sessionVars, Live
    <3>2. \A s \in Live : sessions[s] \in Ctxs
      BY <2>1 DEF Live, TypeOK
    <3>3. Live = {}
      BY <2>1, <2>6, <3>2 DEF LoopEnds, Serves, Handles
    <3> QED
      BY <2>2, <2>6, <3>3, Zenon DEF LoopEnds, Running, Events!ServerEnds,
         Events!ServerEnd, ServerEnd, Events!Next
  <2>7. ASSUME NEW c \in Ctxs,
               \/ TcpInitFails(c) \/ ReadStartFails(c)
               \/ SendTaken(c) \/ SendRefused(c) \/ OnSend(c) \/ OnRecvError(c)
        PROVE  UNCHANGED <<announced, told>>
    BY <2>7, Zenon DEF TcpInitFails, ReadStartFails, SendTaken, SendRefused, OnSend,
       OnRecvError, eventVars
  <2>8. CASE Close \/ CloseFlag \/ CloseSignal \/ AsyncCloseCB \/ UNCHANGED vars
    BY <2>8, Zenon DEF Close, CloseFlag, CloseSignal, AsyncCloseCB, vars, eventVars,
       Events!vars
  <2>9. ASSUME NEW c \in Ctxs, RecycleSessionCtx(c)
        PROVE  UNCHANGED <<announced, told>>
    BY <2>9, Zenon DEF RecycleSessionCtx, HandleCloses
  <2>10. ASSUME NEW h \in Handles, AfterServerClose(h)
        PROVE  UNCHANGED <<announced, told>>
    BY <2>10, Zenon DEF AfterServerClose, HandleCloses
  <2>11. ASSUME NEW c \in Ctxs, OnConnection(c)
        PROVE  Events!Next
    BY <2>3, <2>4, <2>11, Zenon DEF Events!Next
  <2>12. ASSUME NEW c \in Ctxs, SessionClosed(c)
         PROVE  Events!Next
    BY <2>5, <2>12, Zenon DEF Events!Next
  <2>13. CASE LoopEnds
    BY <2>6, <2>13, Zenon DEF Events!Next
  <2> QED
    BY <1>2, <2>7, <2>8, <2>9, <2>10, <2>11, <2>12, <2>13, Zenon DEF Next,
       CloseCallback, Events!vars
<1> QED
  BY <1>1, <1>2, ServerIInv, PTL DEF Spec, CallbacksInOrder, Events!Spec
=============================================================================
