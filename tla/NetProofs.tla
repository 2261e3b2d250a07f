----------------------------- MODULE NetProofs ------------------------------
(***************************************************************************)
(* The network stack under WebKit.                                          *)
(*                                                                         *)
(* A load of CRNHTTPProtocolHandler, for responses and bodies of any length *)
(* and any number of pauses, network reads and restarts: the client hears   *)
(* what the core said, in its order and as the contract of                  *)
(* NSURLProtocolClient has it, nothing after stopLoading, and each attempt  *)
(* to upload a chunked body sends the body.                                 *)
(*                                                                         *)
(* CookieStoreIOS, for any cookies, observed keys and number of changes and *)
(* flushes: what is cached, announced and saved catches up with the store.  *)
(***************************************************************************)
EXTENDS ChunkedUploader, CookieStoreIOS, ListLemmas

USE HandlerAssumption, UploaderAssumption

Block == [kind : Kinds, piece : 0..MaxData]

(* The part of the inductive invariant about the two threads of the         *)
(* handler...                                                               *)
HandlerInv ==
  /\ TypeOK
  /\ StreamHasRequest
  /\ CoreKeepsOrder
  /\ LifeCycle
  /\ QueueDrains
  /\ CompletionWasDelivered
  /\ DeliveredInOrder

(* ... and the part about the proxy alone.                                 *)
ProxyInv == QueueDrains /\ CompletionWasDelivered /\ DeliveredInOrder

-----------------------------------------------------------------------------
(* TypeOK, one variable at a time.                                         *)
LEMMA TypeParts ==
  /\ TypeOK <=>
       /\ loading \in {"idle", "loading", "stopped"}
       /\ handler \in BOOLEAN /\ protocol \in BOOLEAN /\ paused \in BOOLEAN
       /\ requestComplete \in BOOLEAN /\ draining \in BOOLEAN /\ tracker \in BOOLEAN
       /\ stream_delegate \in BOOLEAN
       /\ queuedBlocks \in Seq(Block) /\ posted \in Seq(Block)
       /\ delivered \in Seq(Block) /\ emitted \in Seq(Block)
       /\ ioTasks \in Seq({"Start", "Cancel"})
       /\ net_request \in Phases /\ body \in {"none", "sized", "chunked"}
       /\ streamLeft \in 0..StreamLength /\ received \in 0..MaxData
  /\ TypeOK' <=>
       /\ loading' \in {"idle", "loading", "stopped"}
       /\ handler' \in BOOLEAN /\ protocol' \in BOOLEAN /\ paused' \in BOOLEAN
       /\ requestComplete' \in BOOLEAN /\ draining' \in BOOLEAN /\ tracker' \in BOOLEAN
       /\ stream_delegate' \in BOOLEAN
       /\ queuedBlocks' \in Seq(Block) /\ posted' \in Seq(Block)
       /\ delivered' \in Seq(Block) /\ emitted' \in Seq(Block)
       /\ ioTasks' \in Seq({"Start", "Cancel"})
       /\ net_request' \in Phases /\ body' \in {"none", "sized", "chunked"}
       /\ streamLeft' \in 0..StreamLength /\ received' \in 0..MaxData
<1> HIDE HandlerAssumption, UploaderAssumption
<1> QED
  BY Zenon DEF TypeOK, Block

(* The calls the core makes are blocks.                                    *)
LEMMA CallbackFacts ==
  /\ \A how \in Kinds : Callback(how) \in Block /\ Callback(how).kind = how
  /\ \A n \in 0..MaxData : Data(n) \in Block /\ Data(n).kind = "data"
  BY DEF Callback, Data, Block, Kinds

(* Where the contract allows one more call.                                *)
LEMMA AppendKeepsCallbackOrder ==
  ASSUME NEW s \in Seq(Block), CallbackOrder(s),
         \A i \in DOMAIN s : s[i].kind \notin EndKinds,
         NEW e \in Block,
         \/ s = <<>> /\ e.kind \in {"response", "redirect", "fail"}
         \/ s # <<>> /\ e.kind \in {"data", "finish", "fail"}
  PROVE  /\ CallbackOrder(Append(s, e))
         /\ e.kind \notin EndKinds =>
              \A i \in DOMAIN Append(s, e) : Append(s, e)[i].kind \notin EndKinds
<1> DEFINE t == Append(s, e)
<1>0. /\ Len(s) \in Nat /\ DOMAIN s = 1..Len(s) /\ t \in Seq(Block)
      /\ Len(t) = Len(s) + 1 /\ DOMAIN t = 1..Len(t) /\ t # <<>>
      /\ \A i \in 1..Len(s) : t[i] = s[i]
      /\ t[Len(s) + 1] = e
      /\ s # <<>> <=> Len(s) # 0
  BY AppendProperties, LenProperties, EmptySeq
<1> HIDE DEF t
<1>1. \A i \in DOMAIN t : \/ i \in DOMAIN s /\ t[i] = s[i]
                          \/ i = Len(s) + 1 /\ t[i] = e
  BY <1>0
<1>2. t[1].kind \in {"response", "redirect", "fail"}
  <2>1. CASE s = <<>>
    BY <1>0, <2>1
  <2>2. CASE s # <<>>
    BY <1>0, <2>2 DEF CallbackOrder
  <2> QED
    BY <2>1, <2>2
<1>3. ASSUME NEW i \in DOMAIN t, NEW j \in DOMAIN t, i < j
      PROVE  t[i].kind \notin EndKinds /\ t[j].kind \notin {"response", "redirect"}
  <2>1. i \in DOMAIN s /\ t[i] = s[i]
    BY <1>0, <1>1, <1>3
  <2>2. CASE j \in DOMAIN s
    BY <1>0, <1>3, <2>1, <2>2 DEF CallbackOrder
  <2>3. CASE j \notin DOMAIN s
    BY <1>0, <1>1, <2>1, <2>3
  <2> QED
    BY <2>1, <2>2, <2>3
<1>4. CallbackOrder(t)
  BY <1>2, <1>3 DEF CallbackOrder
<1>5. e.kind \notin EndKinds => \A i \in DOMAIN t : t[i].kind \notin EndKinds
  BY <1>1
<1> QED
  BY <1>4, <1>5 DEF t

(* The contract carries over to what has arrived so far.                   *)
LEMMA PrefixKeepsCallbackOrder ==
  ASSUME NEW s \in Seq(Block), NEW t \in Seq(Block), IsPrefix(s, t), CallbackOrder(t)
  PROVE  CallbackOrder(s)
<1>1. /\ Len(s) \in Nat /\ Len(t) \in Nat /\ DOMAIN s = 1..Len(s) /\ DOMAIN t = 1..Len(t)
      /\ s # <<>> => Len(s) # 0
      /\ Len(t) # 0 => t # <<>>
  BY LenProperties, EmptySeq
<1>2. Len(s) <= Len(t) /\ \A k \in 1..Len(s) : s[k] = t[k]
  BY PrefixProperties
<1>3. \A k \in DOMAIN s : k \in DOMAIN t /\ s[k] = t[k]
  BY <1>1, <1>2
<1>4. s # <<>> => 1 \in DOMAIN s /\ t # <<>>
  BY <1>1, <1>2
<1> QED
  BY <1>3, <1>4 DEF CallbackOrder

-----------------------------------------------------------------------------
(* A call of the core to the proxy goes to the end of the line, unless the  *)
(* request was stopped.                                                     *)
LEMMA EmitKeepsProxy ==
  ASSUME TypeOK, ProxyInv, UNCHANGED clientVars, NEW e \in Block, Emit(e),
         loading = "loading" => protocol
  PROVE  ProxyInv' /\ posted' \in Seq(Block) /\ emitted' \in Seq(Block)
<1>0. /\ queuedBlocks \in Seq(Block) /\ posted \in Seq(Block)
      /\ delivered \in Seq(Block) /\ emitted \in Seq(Block)
  BY TypeParts
<1>u. /\ queuedBlocks' = queuedBlocks /\ delivered' = delivered /\ loading' = loading
      /\ protocol' = protocol /\ paused' = paused /\ draining' = draining
      /\ requestComplete' = requestComplete
  BY DEF clientVars, proxyVars
<1>1. emitted' = Append(emitted, e) /\ emitted' \in Seq(Block)
  BY <1>0, AppendProperties DEF Emit
<1>2. posted' \in Seq(Block)
  BY <1>0, AppendProperties DEF Emit
<1>3. IsPrefix(delivered', emitted')
  <2>1. /\ Len(emitted) \in Nat /\ Len(delivered) \in Nat
        /\ Len(emitted') = Len(emitted) + 1
        /\ \A i \in 1..Len(emitted) : emitted'[i] = emitted[i]
    BY <1>0, <1>1, AppendProperties, LenProperties
  <2>2. Len(delivered) <= Len(emitted) /\ \A k \in 1..Len(delivered) : delivered[k] = emitted[k]
    BY <1>0, PrefixProperties DEF ProxyInv, DeliveredInOrder
  <2>3. /\ Len(delivered) <= Len(emitted')
        /\ \A k \in 1..Len(delivered) : delivered[k] = emitted'[k]
    BY <2>1, <2>2
  <2> QED
    BY <1>0, <1>1, <1>u, <2>3, PrefixProperties
<1>4. ASSUME loading = "loading"
      PROVE  emitted' = delivered \o queuedBlocks \o posted'
  <2>1. emitted = (delivered \o queuedBlocks) \o posted
    BY <1>4 DEF ProxyInv, DeliveredInOrder
  <2>2. posted' = Append(posted, e)
    BY <1>4 DEF Emit
  <2>3. Append(emitted, e) = (delivered \o queuedBlocks) \o Append(posted, e)
    <3>1. Append(posted, e) = posted \o <<e>> /\ Append(emitted, e) = emitted \o <<e>>
      BY <1>0, AppendIsConcat
    <3>2. delivered \o queuedBlocks \in Seq(Block) /\ <<e>> \in Seq(Block)
      BY <1>0, ConcatProperties
    <3>3. ((delivered \o queuedBlocks) \o posted) \o <<e>>
            = (delivered \o queuedBlocks) \o (posted \o <<e>>)
      BY <1>0, <3>2, ConcatAssociative, SMTT(40)
    <3> QED
      BY <2>1, <3>1, <3>3
  <2> QED
    BY <1>1, <2>1, <2>2, <2>3
<1>5. DeliveredInOrder'
  BY <1>u, <1>3, <1>4 DEF DeliveredInOrder
<1>6. QueueDrains' /\ CompletionWasDelivered'
  BY <1>u DEF ProxyInv, QueueDrains, CompletionWasDelivered
<1> QED
  BY <1>1, <1>2, <1>5, <1>6 DEF ProxyInv

(* A step of the core that tells nothing leaves the proxy alone.           *)
LEMMA SilentKeepsProxy ==
  ASSUME ProxyInv, UNCHANGED clientVars, Silent
  PROVE  ProxyInv'
<1>1. /\ queuedBlocks' = queuedBlocks /\ delivered' = delivered /\ loading' = loading
      /\ protocol' = protocol /\ paused' = paused /\ draining' = draining
      /\ requestComplete' = requestComplete /\ posted' = posted /\ emitted' = emitted
  BY DEF clientVars, proxyVars, Silent
<1> QED
  BY <1>1 DEF ProxyInv, QueueDrains, CompletionWasDelivered, DeliveredInOrder

(* The invariant, for a step that leaves the client thread's variables.    *)
LEMMA HandlerParts ==
  /\ HandlerInv <=> TypeOK /\ StreamHasRequest /\ CoreKeepsOrder /\ LifeCycle /\ ProxyInv
  /\ HandlerInv' <=>
       TypeOK' /\ StreamHasRequest' /\ CoreKeepsOrder' /\ LifeCycle' /\ ProxyInv'
  BY Zenon DEF HandlerInv, ProxyInv

(* The core ends a request it has: the error, the redirect or the end of    *)
(* the response is the last thing it says.                                  *)
LEMMA EndingStep ==
  ASSUME HandlerInv, net_request # "null", NEW how \in EndKinds,
         Emit(Callback(how)), StopNetRequest, onIOThread,
         how = "finish" => emitted # <<>>,
         how = "redirect" => emitted = <<>>
  PROVE  HandlerInv'
<1> DEFINE e == Callback(how)
<1>e. e \in Block /\ e.kind = how
  BY CallbackFacts DEF EndKinds, Kinds
<1> HIDE DEF e
<1>u. /\ loading' = loading /\ handler' = handler /\ protocol' = protocol
      /\ paused' = paused /\ requestComplete' = requestComplete
      /\ queuedBlocks' = queuedBlocks /\ draining' = draining /\ delivered' = delivered
      /\ ioTasks' = ioTasks /\ UNCHANGED clientVars
  BY DEF onIOThread, clientVars, proxyVars
<1>v. /\ net_request' = "null" /\ stream_delegate' = FALSE /\ tracker' = tracker
      /\ body' = body /\ streamLeft' = streamLeft /\ received' = received
  BY DEF StopNetRequest, ListeningAfterStop
<1>0. TypeOK /\ ProxyInv /\ LifeCycle /\ CoreKeepsOrder
  BY HandlerParts
<1>1. loading # "idle" /\ (loading = "loading" => protocol)
  BY <1>0 DEF LifeCycle
<1>2. Emit(e)
  BY DEF e
<1>3. ProxyInv' /\ posted' \in Seq(Block) /\ emitted' \in Seq(Block)
  BY <1>0, <1>1, <1>2, <1>e, <1>u, EmitKeepsProxy
<1>4. TypeOK'
  BY <1>0, <1>3, <1>u, <1>v, TypeParts, Zenon DEF Phases
<1>5. CoreKeepsOrder'
  <2>1. /\ \A i \in DOMAIN emitted : emitted[i].kind \notin EndKinds
        /\ CallbackOrder(emitted) /\ emitted \in Seq(Block)
    <3>1. net_request \in Phases /\ emitted \in Seq(Block)
      BY <1>0, TypeParts
    <3>2. CASE net_request \in {"created", "started", "no_auth", "held"}
      <4>1. emitted = <<>>
        BY <1>0, <3>2 DEF CoreKeepsOrder
      <4>2. DOMAIN emitted = {}
        BY <4>1
      <4> QED
        BY <1>0, <3>1, <4>2 DEF CoreKeepsOrder
    <3>3. CASE net_request \in {"read", "pending"}
      BY <1>0, <3>1, <3>3 DEF CoreKeepsOrder
    <3> QED
      BY <3>1, <3>2, <3>3 DEF Phases
  <2>2. \/ emitted = <<>> /\ e.kind \in {"response", "redirect", "fail"}
        \/ emitted # <<>> /\ e.kind \in {"data", "finish", "fail"}
    BY <1>e DEF EndKinds
  <2>3. CallbackOrder(Append(emitted, e))
    BY <1>e, <2>1, <2>2, AppendKeepsCallbackOrder
  <2> QED
    BY <1>2, <1>v, <2>3 DEF CoreKeepsOrder, Emit
<1>6. LifeCycle'
  BY <1>0, <1>1, <1>u, <1>v DEF LifeCycle
<1>7. StreamHasRequest'
  BY <1>v DEF StreamHasRequest
<1> QED
  BY <1>3, <1>4, <1>5, <1>6, <1>7, HandlerParts

(* The core goes on with its request, if it has one, and says nothing: it   *)
(* stays before the response, or after it.                                  *)
LEMMA SilentStep ==
  ASSUME HandlerInv, TypeOK', Silent, onIOThread,
         \/ net_request' = net_request
         \/ {net_request, net_request'} \subseteq {"created", "started", "no_auth", "held"}
         \/ {net_request, net_request'} \subseteq {"read", "pending"},
         body' = body,
         stream_delegate' =>
           stream_delegate /\ (net_request = "created" => net_request' = "created")
  PROVE  HandlerInv'
<1>u. /\ loading' = loading /\ handler' = handler /\ protocol' = protocol
      /\ paused' = paused /\ requestComplete' = requestComplete
      /\ queuedBlocks' = queuedBlocks /\ draining' = draining /\ delivered' = delivered
      /\ ioTasks' = ioTasks /\ UNCHANGED clientVars /\ emitted' = emitted
      /\ posted' = posted
  BY DEF onIOThread, clientVars, proxyVars, Silent
<1>0. TypeOK /\ ProxyInv /\ LifeCycle /\ CoreKeepsOrder /\ StreamHasRequest
  BY HandlerParts
<1>1. ProxyInv'
  BY <1>0, <1>u, SilentKeepsProxy
<1>n. net_request' = "null" <=> net_request = "null"
  OBVIOUS
<1>2. LifeCycle'
  BY <1>0, <1>u, <1>n DEF LifeCycle
<1>3. CoreKeepsOrder'
  <2>1. CASE net_request' \in {"created", "started", "no_auth", "held"}
    <3>1. net_request \in {"created", "started", "no_auth", "held"}
      BY <2>1
    <3> QED
      BY <1>0, <1>u, <2>1, <3>1 DEF CoreKeepsOrder
  <2>2. CASE net_request' \in {"read", "pending"}
    <3>1. net_request \in {"read", "pending"}
      BY <2>2
    <3> QED
      BY <1>0, <1>u, <2>2, <3>1 DEF CoreKeepsOrder
  <2>3. CASE net_request' \notin {"created", "started", "no_auth", "held", "read", "pending"}
    BY <1>0, <1>u, <2>3 DEF CoreKeepsOrder
  <2> QED
    BY <2>1, <2>2, <2>3
<1>4. StreamHasRequest'
  BY <1>0, <1>n DEF StreamHasRequest
<1> QED
  BY <1>0, <1>1, <1>2, <1>3, <1>4, HandlerParts

(* An error ends any request.                                              *)
LEMMA ErrorStep ==
  ASSUME HandlerInv, net_request # "null", StopRequestWithError, onIOThread
  PROVE  HandlerInv'
  BY EndingStep DEF StopRequestWithError, EndKinds

(* Only the phase of the request changes, and not to or from its reading.  *)
LEMMA PhaseStep ==
  ASSUME HandlerInv, NEW phase, Phase(phase), Silent, onIOThread,
         \/ {net_request, phase} \subseteq {"started", "no_auth", "held"}
         \/ {net_request, phase} \subseteq {"read", "pending"}
  PROVE  HandlerInv'
<1>1. /\ net_request' = phase /\ tracker' = tracker /\ body' = body
      /\ stream_delegate' = stream_delegate /\ streamLeft' = streamLeft
      /\ received' = received
  BY DEF Phase, streamVars
<1>2. UNCHANGED <<loading, handler, protocol, paused, requestComplete, queuedBlocks,
                  draining, delivered, ioTasks, emitted, posted>>
  BY DEF onIOThread, clientVars, proxyVars, Silent
<1>p. net_request' \in Phases
  BY <1>1 DEF Phases
<1>3. TypeOK'
  BY <1>1, <1>2, <1>p, TypeParts, HandlerParts, Zenon
<1>4. net_request # "created"
  OBVIOUS
<1>5. \/ {net_request, net_request'} \subseteq {"created", "started", "no_auth", "held"}
      \/ {net_request, net_request'} \subseteq {"read", "pending"}
  BY <1>1
<1> QED
  BY <1>1, <1>3, <1>4, <1>5, SilentStep

(* The response is the first thing the client hears.                       *)
LEMMA ResponseStep ==
  ASSUME HandlerInv, net_request \in Loading, StartReading, onIOThread
  PROVE  HandlerInv'
<1> DEFINE e == Callback("response")
<1>e. e \in Block /\ e.kind = "response"
  BY CallbackFacts DEF Kinds
<1> HIDE DEF e
<1>u. /\ loading' = loading /\ handler' = handler /\ protocol' = protocol
      /\ paused' = paused /\ requestComplete' = requestComplete
      /\ queuedBlocks' = queuedBlocks /\ draining' = draining /\ delivered' = delivered
      /\ ioTasks' = ioTasks /\ UNCHANGED clientVars
  BY DEF onIOThread, clientVars, proxyVars
<1>v. /\ Emit(e) /\ net_request' = "read" /\ tracker' = tracker
      /\ body' = body /\ stream_delegate' = stream_delegate
      /\ streamLeft' = streamLeft /\ received' = received
  BY DEF StartReading, Phase, streamVars, e
<1>0. TypeOK /\ ProxyInv /\ LifeCycle /\ CoreKeepsOrder /\ StreamHasRequest
  BY HandlerParts
<1>1. net_request \in {"started", "no_auth"} /\ emitted = <<>> /\ emitted \in Seq(Block)
  BY <1>0, TypeParts DEF Loading, CoreKeepsOrder
<1>2. loading # "idle" /\ (loading = "loading" => protocol)
  BY <1>0, <1>1 DEF LifeCycle
<1>3. ProxyInv' /\ posted' \in Seq(Block) /\ emitted' \in Seq(Block)
  BY <1>0, <1>2, <1>e, <1>u, <1>v, EmitKeepsProxy
<1>4. TypeOK'
  BY <1>0, <1>3, <1>u, <1>v, TypeParts, Zenon DEF Phases
<1>5. CoreKeepsOrder'
  <2>1. DOMAIN emitted = {}
    BY <1>1
  <2>2. CallbackOrder(emitted) /\ \A i \in DOMAIN emitted : emitted[i].kind \notin EndKinds
    BY <1>0, <2>1 DEF CoreKeepsOrder
  <2>3. emitted' = Append(emitted, e) /\ emitted' # <<>>
    BY <1>1, <1>v, AppendProperties DEF Emit
  <2>4. "response" \notin EndKinds
    BY DEF EndKinds
  <2>5. CallbackOrder(emitted') /\ \A i \in DOMAIN emitted' : emitted'[i].kind \notin EndKinds
    BY <1>1, <1>e, <2>2, <2>3, <2>4, AppendKeepsCallbackOrder
  <2> QED
    BY <1>v, <2>3, <2>5 DEF CoreKeepsOrder
<1>6. LifeCycle'
  BY <1>0, <1>1, <1>2, <1>u, <1>v DEF LifeCycle
<1>7. StreamHasRequest'
  BY <1>0, <1>1, <1>v DEF StreamHasRequest
<1> QED
  BY <1>3, <1>4, <1>5, <1>6, <1>7, HandlerParts

(* Data comes after the response.                                          *)
LEMMA DataStep ==
  ASSUME HandlerInv, ReadData
  PROVE  HandlerInv'
<1> DEFINE n == received + 1
           e == Data(n)
<1>0. TypeOK /\ ProxyInv /\ LifeCycle /\ CoreKeepsOrder /\ StreamHasRequest
  BY HandlerParts
<1>n. n \in 0..MaxData
  <2>1. received \in 0..MaxData /\ received < MaxData
    BY <1>0, TypeParts DEF ReadData
  <2> QED
    BY <2>1
<1> HIDE DEF n
<1>e. e \in Block /\ e.kind = "data"
  BY <1>n, CallbackFacts
<1> HIDE DEF e
<1>u. /\ loading' = loading /\ handler' = handler /\ protocol' = protocol
      /\ paused' = paused /\ requestComplete' = requestComplete
      /\ queuedBlocks' = queuedBlocks /\ draining' = draining /\ delivered' = delivered
      /\ ioTasks' = ioTasks /\ UNCHANGED clientVars
  BY DEF ReadData, onIOThread, clientVars, proxyVars
<1>v. /\ Emit(e) /\ net_request' = "read" /\ tracker' = tracker
      /\ body' = body /\ stream_delegate' = stream_delegate
      /\ streamLeft' = streamLeft /\ received' = n /\ net_request \in {"read", "pending"}
  BY DEF ReadData, streamVars, NextPiece, e, n
<1>1. /\ emitted # <<>> /\ emitted \in Seq(Block) /\ CallbackOrder(emitted)
      /\ \A i \in DOMAIN emitted : emitted[i].kind \notin EndKinds
  BY <1>0, <1>v, TypeParts DEF CoreKeepsOrder
<1>2. loading # "idle" /\ (loading = "loading" => protocol)
  BY <1>0, <1>v DEF LifeCycle
<1>3. ProxyInv' /\ posted' \in Seq(Block) /\ emitted' \in Seq(Block)
  BY <1>0, <1>2, <1>e, <1>u, <1>v, EmitKeepsProxy
<1>4. TypeOK'
  BY <1>0, <1>3, <1>n, <1>u, <1>v, TypeParts, Zenon DEF Phases
<1>5. CoreKeepsOrder'
  <2>3. emitted' = Append(emitted, e) /\ emitted' # <<>>
    BY <1>1, <1>v, AppendProperties DEF Emit
  <2>4. "data" \notin EndKinds
    BY DEF EndKinds
  <2>5. CallbackOrder(emitted') /\ \A i \in DOMAIN emitted' : emitted'[i].kind \notin EndKinds
    BY <1>1, <1>e, <2>3, <2>4, AppendKeepsCallbackOrder
  <2> QED
    BY <1>v, <2>3, <2>5 DEF CoreKeepsOrder
<1>6. LifeCycle'
  BY <1>0, <1>2, <1>u, <1>v DEF LifeCycle
<1>7. StreamHasRequest'
  BY <1>0, <1>v DEF StreamHasRequest
<1> QED
  BY <1>3, <1>4, <1>5, <1>6, <1>7, HandlerParts

(* What the tasks of the core are once one of them has run.                *)
LEMMA TaskFacts ==
  ASSUME LifeCycle, TypeOK, ioTasks # <<>>, ioTasks' = Tail(ioTasks)
  PROVE  /\ Head(ioTasks) = ioTasks[1]
         /\ loading # "idle" /\ (loading = "loading" => protocol)
         /\ loading = "loading" => ioTasks[1] = "Start" /\ ioTasks' = <<>>
         /\ loading = "stopped" /\ ioTasks[1] = "Start" => ioTasks' = <<"Cancel">>
         /\ loading = "stopped" /\ ioTasks[1] = "Cancel" => ioTasks' = <<>>
         /\ ioTasks' \in Seq({"Start", "Cancel"})
<1>0. ioTasks \in Seq({"Start", "Cancel"}) /\ loading \in {"idle", "loading", "stopped"}
  BY TypeParts
<1>1. Head(ioTasks) = ioTasks[1] /\ ioTasks' \in Seq({"Start", "Cancel"})
  BY <1>0, HeadTailProperties, EmptySeq
<1>2. loading # "idle" /\ (loading = "loading" => protocol)
  BY DEF LifeCycle
<1>3. ASSUME loading = "loading"
      PROVE  ioTasks[1] = "Start" /\ ioTasks' = <<>>
  <2>1. ioTasks = <<"Start">>
    BY <1>3 DEF LifeCycle
  <2> QED
    BY <2>1
<1>4. ASSUME loading = "stopped"
      PROVE  /\ ioTasks[1] = "Start" => ioTasks' = <<"Cancel">>
             /\ ioTasks[1] = "Cancel" => ioTasks' = <<>>
  <2>1. ioTasks = <<"Cancel">> \/ ioTasks = <<"Start", "Cancel">>
    BY <1>4 DEF LifeCycle
  <2>2. CASE ioTasks = <<"Cancel">>
    BY <2>2
  <2>3. CASE ioTasks = <<"Start", "Cancel">>
    BY <2>3
  <2> QED
    BY <2>1, <2>2, <2>3
<1> QED
  BY <1>1, <1>2, <1>3, <1>4

(* Start runs before anything else of the core has.                        *)
LEMMA StartStep ==
  ASSUME HandlerInv, Start
  PROVE  HandlerInv'
<1>0. TypeOK /\ ProxyInv /\ LifeCycle /\ CoreKeepsOrder /\ StreamHasRequest
  BY HandlerParts
<1>u. /\ loading' = loading /\ handler' = handler /\ protocol' = protocol
      /\ paused' = paused /\ requestComplete' = requestComplete
      /\ queuedBlocks' = queuedBlocks /\ draining' = draining /\ delivered' = delivered
      /\ UNCHANGED clientVars /\ ioTasks' = Tail(ioTasks) /\ ioTasks # <<>>
      /\ Head(ioTasks) = "Start"
  BY DEF Start, clientVars, proxyVars
<1>1. /\ ioTasks[1] = "Start" /\ loading # "idle" /\ (loading = "loading" => protocol)
      /\ loading = "loading" => ioTasks' = <<>>
      /\ loading = "stopped" => ioTasks' = <<"Cancel">>
      /\ ioTasks' \in Seq({"Start", "Cancel"})
  BY <1>0, <1>u, TaskFacts
<1>2. net_request = "null" /\ emitted = <<>> /\ ~stream_delegate
  BY <1>0, <1>1, <1>u DEF LifeCycle, StreamHasRequest
<1>t. /\ tracker \in BOOLEAN /\ net_request \in Phases /\ body \in {"none", "sized", "chunked"}
      /\ stream_delegate \in BOOLEAN /\ loading \in {"idle", "loading", "stopped"}
  BY <1>0, TypeParts
<1>3. CASE Emit(Callback("fail")) /\ UNCHANGED coreVars
  <2> DEFINE e == Callback("fail")
  <2>e. e \in Block /\ e.kind = "fail"
    BY CallbackFacts DEF Kinds
  <2>0. Emit(e)
    BY <1>3
  <2> HIDE DEF e
  <2>v. UNCHANGED <<net_request, tracker, body, stream_delegate, streamLeft, received>>
    BY <1>3 DEF coreVars, streamVars
  <2>1. ProxyInv' /\ posted' \in Seq(Block) /\ emitted' \in Seq(Block)
    BY <1>0, <1>1, <1>u, <2>0, <2>e, EmitKeepsProxy
  <2>2. TypeOK'
    BY <1>0, <1>1, <1>u, <2>v, <2>1, TypeParts, Zenon
  <2>3. CoreKeepsOrder'
    <3>1. emitted \in Seq(Block) /\ DOMAIN emitted = {}
      BY <1>0, <1>2, TypeParts
    <3>2. CallbackOrder(emitted)
      BY <1>0 DEF CoreKeepsOrder
    <3>3. CallbackOrder(Append(emitted, e))
      BY <1>2, <2>e, <3>1, <3>2, AppendKeepsCallbackOrder
    <3> QED
      BY <1>2, <2>0, <2>v, <3>3 DEF CoreKeepsOrder, Emit
  <2>4. LifeCycle'
    BY <1>0, <1>1, <1>2, <1>t, <1>u, <2>v DEF LifeCycle
  <2>5. StreamHasRequest'
    BY <1>2, <2>v DEF StreamHasRequest
  <2> QED
    BY <2>1, <2>2, <2>3, <2>4, <2>5, HandlerParts
<1>4. CASE /\ tracker' \in BOOLEAN
           /\ net_request' = IF body = "sized" THEN "created" ELSE "started"
           /\ stream_delegate' = (body # "none")
           /\ UNCHANGED <<body, streamLeft, received>>
           /\ Silent
  <2>v. /\ UNCHANGED <<body, streamLeft, received, emitted, posted>>
        /\ net_request' \in {"created", "started"}
        /\ body = "sized" => net_request' = "created"
        /\ stream_delegate' \in BOOLEAN
    BY <1>4 DEF Silent
  <2>1. ProxyInv'
    BY <1>0, <1>4, <1>u, SilentKeepsProxy
  <2>p. net_request' \in Phases
    BY <2>v DEF Phases
  <2>2. TypeOK'
    BY <1>0, <1>1, <1>4, <1>u, <2>v, <2>p, TypeParts, Zenon
  <2>3. CoreKeepsOrder'
    BY <1>0, <1>2, <2>v DEF CoreKeepsOrder
  <2>4. LifeCycle'
    BY <1>0, <1>1, <1>2, <1>t, <1>u, <2>v DEF LifeCycle
  <2>5. StreamHasRequest'
    BY <2>v DEF StreamHasRequest
  <2> QED
    BY <2>1, <2>2, <2>3, <2>4, <2>5, HandlerParts
<1> QED
  BY <1>3, <1>4 DEF Start

(* Cancel is only posted by stopLoading, and leaves nothing behind.        *)
LEMMA CancelStep ==
  ASSUME HandlerInv, Cancel
  PROVE  HandlerInv'
<1>0. TypeOK /\ ProxyInv /\ LifeCycle /\ CoreKeepsOrder /\ StreamHasRequest
  BY HandlerParts
<1>u. /\ loading' = loading /\ handler' = handler /\ protocol' = protocol
      /\ paused' = paused /\ requestComplete' = requestComplete
      /\ queuedBlocks' = queuedBlocks /\ draining' = draining /\ delivered' = delivered
      /\ UNCHANGED clientVars /\ ioTasks' = Tail(ioTasks) /\ ioTasks # <<>>
      /\ Head(ioTasks) = "Cancel" /\ emitted' = emitted /\ posted' = posted /\ Silent
  BY DEF Cancel, clientVars, proxyVars, Silent
<1>t. loading \in {"idle", "loading", "stopped"} /\ net_request \in Phases
  BY <1>0, TypeParts
<1>1. /\ ioTasks[1] = "Cancel" /\ loading # "idle"
      /\ loading = "loading" => ioTasks[1] = "Start"
      /\ loading = "stopped" => ioTasks' = <<>>
      /\ ioTasks' \in Seq({"Start", "Cancel"})
  BY <1>0, <1>u, TaskFacts
<1>2. loading = "stopped" /\ ioTasks' = <<>>
  BY <1>1, <1>t
<1>3. /\ net_request' = "null" /\ stream_delegate' = FALSE /\ tracker' = tracker
      /\ body' = body /\ streamLeft' = streamLeft /\ received' = received
  <2>1. CASE net_request = "null"
    <3>1. stream_delegate \in BOOLEAN /\ ~stream_delegate
      BY <1>0, <2>1, TypeParts DEF StreamHasRequest
    <3>2. UNCHANGED coreVars
      BY <2>1 DEF Cancel
    <3> QED
      BY <2>1, <3>1, <3>2 DEF coreVars, streamVars
  <2>2. CASE net_request # "null"
    BY <2>2 DEF Cancel, StopNetRequest, ListeningAfterStop
  <2> QED
    BY <2>1, <2>2
<1>4. ProxyInv'
  BY <1>0, <1>u, SilentKeepsProxy
<1>5. TypeOK'
  BY <1>0, <1>1, <1>3, <1>u, TypeParts, Zenon DEF Phases
<1>6. CoreKeepsOrder' /\ StreamHasRequest'
  BY <1>0, <1>3, <1>u DEF CoreKeepsOrder, StreamHasRequest
<1>7. LifeCycle'
  BY <1>0, <1>2, <1>3, <1>u DEF LifeCycle
<1> QED
  BY <1>4, <1>5, <1>6, <1>7, HandlerParts

(* A step that only moves the stream of a sized body along, or loses the    *)
(* tracker.                                                                 *)
LEMMA QuietStep ==
  ASSUME HandlerInv, Silent, onIOThread, UNCHANGED <<net_request, body, received>>,
         tracker' \in BOOLEAN, stream_delegate' \in {FALSE, stream_delegate},
         streamLeft' \in 0..StreamLength
  PROVE  HandlerInv'
<1>1. UNCHANGED <<loading, handler, protocol, paused, requestComplete, queuedBlocks,
                  draining, delivered, ioTasks, emitted, posted>>
  BY DEF onIOThread, clientVars, proxyVars, Silent
<1>2. stream_delegate' \in BOOLEAN /\ (stream_delegate' => stream_delegate)
  BY TypeParts, HandlerParts, Zenon
<1>3. TypeOK'
  BY <1>1, <1>2, TypeParts, HandlerParts, Zenon
<1> QED
  BY <1>2, <1>3, SilentStep

(* The stream of a sized body.                                             *)
LEMMA StreamSteps ==
  ASSUME HandlerInv, StreamStep
  PROVE  HandlerInv'
<1>0. TypeOK /\ StreamHasRequest
  BY HandlerParts
<1>t. /\ streamLeft \in 0..StreamLength /\ tracker \in BOOLEAN /\ stream_delegate \in BOOLEAN
      /\ received \in 0..MaxData
  BY <1>0, TypeParts
<1>n. stream_delegate => net_request # "null"
  BY <1>0 DEF StreamHasRequest
<1>1. CASE StreamHasBytesAvailable
  <2>1. CASE StopRequestWithError
    BY <1>1, <1>n, <2>1, ErrorStep DEF StreamHasBytesAvailable
  <2>2. CASE /\ streamLeft' = streamLeft - 1
             /\ UNCHANGED <<tracker, net_request, body, stream_delegate, received>>
             /\ Silent
    <3>1. streamLeft' \in 0..StreamLength
      BY <1>1, <1>t, <2>2 DEF StreamHasBytesAvailable
    <3> QED
      BY <1>1, <1>t, <2>2, <3>1, QuietStep DEF StreamHasBytesAvailable
  <2> QED
    BY <1>1, <2>1, <2>2 DEF StreamHasBytesAvailable
<1>2. CASE StreamEndEncountered
  <2>1. /\ UNCHANGED <<loading, handler, protocol, paused, requestComplete, queuedBlocks,
                       draining, delivered, ioTasks, emitted, posted>>
        /\ UNCHANGED <<tracker, body, streamLeft, received>>
        /\ net_request' = "started" /\ stream_delegate' = FALSE
        /\ stream_delegate /\ body = "sized" /\ Silent /\ onIOThread
    BY <1>2 DEF StreamEndEncountered, onIOThread, clientVars, proxyVars, Silent
  <2>2. net_request' \in Phases
    BY <2>1 DEF Phases
  <2>3. TypeOK'
    BY <1>0, <2>1, <2>2, TypeParts, Zenon
  <2>4. net_request = "created"
    BY <1>0, <2>1 DEF StreamHasRequest
  <2>5. {net_request, net_request'} \subseteq {"created", "started", "no_auth", "held"}
    BY <2>1, <2>4
  <2> QED
    BY <2>1, <2>3, <2>5, SilentStep
<1>3. CASE StreamErrorOccurred
  BY <1>3, <1>n, ErrorStep DEF StreamErrorOccurred
<1> QED
  BY <1>1, <1>2, <1>3 DEF StreamStep

(* What the network tells the core before the response.                    *)
LEMMA NetSteps ==
  ASSUME HandlerInv, NetStep
  PROVE  HandlerInv'
<1>0. CoreKeepsOrder
  BY HandlerParts
<1>l. net_request \in Loading => net_request # "null" /\ emitted = <<>>
  BY <1>0 DEF Loading, CoreKeepsOrder
<1>1. CASE OnReceivedRedirect
  <2>1. CASE StopRequestWithError
    BY <1>1, <1>l, <2>1, ErrorStep DEF OnReceivedRedirect
  <2>2. CASE Emit(Callback("redirect")) /\ StopNetRequest
    <3>1. "redirect" \in EndKinds
      BY DEF EndKinds
    <3>2. onIOThread /\ net_request # "null" /\ emitted = <<>>
      BY <1>1, <1>l DEF OnReceivedRedirect
    <3> QED
      BY <2>2, <3>1, <3>2, EndingStep
  <2> QED
    BY <1>1, <2>1, <2>2 DEF OnReceivedRedirect
<1>2. CASE OnAuthRequired
  BY <1>2, PhaseStep DEF OnAuthRequired
<1>3. CASE OnCertificateRequested
  BY <1>3, <1>l, ErrorStep DEF OnCertificateRequested
<1>4. CASE OnSSLCertificateError
  <2>1. CASE StopRequestWithError
    BY <1>4, <1>l, <2>1, ErrorStep DEF OnSSLCertificateError
  <2>2. CASE Phase(net_request) /\ Silent
    BY <1>4, <2>2, PhaseStep DEF OnSSLCertificateError, Loading
  <2>3. CASE Phase("held") /\ Silent
    BY <1>4, <2>3, PhaseStep DEF OnSSLCertificateError, Loading
  <2> QED
    BY <1>4, <2>1, <2>2, <2>3 DEF OnSSLCertificateError
<1>5. CASE OnResponseStarted
  <2>1. CASE StopRequestWithError
    BY <1>5, <1>l, <2>1, ErrorStep DEF OnResponseStarted
  <2>2. CASE StartReading
    BY <1>5, <2>2, ResponseStep DEF OnResponseStarted
  <2>3. CASE Phase("held") /\ Silent
    BY <1>5, <2>3, PhaseStep DEF OnResponseStarted, Loading
  <2> QED
    BY <1>5, <2>1, <2>2, <2>3 DEF OnResponseStarted
<1> QED
  BY <1>1, <1>2, <1>3, <1>4, <1>5 DEF NetStep

(* The core's loop over the response.                                      *)
LEMMA ReadSteps ==
  ASSUME HandlerInv, ReadStep
  PROVE  HandlerInv'
<1>0. net_request \in {"read", "pending"} => emitted # <<>>
  BY HandlerParts DEF CoreKeepsOrder
<1>1. CASE ReadData
  BY <1>1, DataStep
<1>2. CASE ReadPending
  BY <1>2, PhaseStep DEF ReadPending
<1>3. CASE ReadEnd
  <2>1. "finish" \in EndKinds
    BY DEF EndKinds
  <2>2. /\ Emit(Callback("finish")) /\ StopNetRequest /\ onIOThread
        /\ net_request # "null" /\ emitted # <<>>
    BY <1>0, <1>3 DEF ReadEnd
  <2> QED
    BY <2>1, <2>2, EndingStep
<1>4. CASE ReadError
  BY <1>4, ErrorStep DEF ReadError
<1> QED
  BY <1>1, <1>2, <1>3, <1>4 DEF ReadStep

(* The core as a whole.                                                    *)
LEMMA CoreSteps ==
  ASSUME HandlerInv, RunTask \/ StreamStep \/ NetStep \/ ReadStep \/ LoseTracker
  PROVE  HandlerInv'
<1>1. CASE LoseTracker
  <2>1. /\ UNCHANGED <<net_request, body, stream_delegate, streamLeft, received>>
        /\ Silent /\ onIOThread /\ tracker' = FALSE
    BY <1>1 DEF LoseTracker, streamVars
  <2>2. streamLeft' \in 0..StreamLength
    BY <2>1, TypeParts, HandlerParts
  <2> QED
    BY <2>1, <2>2, QuietStep
<1> QED
  BY <1>1, StartStep, CancelStep, StreamSteps, NetSteps, ReadSteps DEF RunTask

-----------------------------------------------------------------------------
(* The client thread: the order of the calls follows the blocks from the    *)
(* run loop through the queue to the client.                                *)

(* The system calls startLoading once; the proxy has nothing to do yet.     *)
LEMMA StartLoadingStep ==
  ASSUME HandlerInv, startLoading
  PROVE  HandlerInv'
<1>0. TypeOK /\ ProxyInv /\ LifeCycle /\ CoreKeepsOrder /\ StreamHasRequest
  BY HandlerParts
<1>1. /\ loading = "idle" /\ handler /\ ~protocol /\ ~paused /\ ~requestComplete
      /\ ioTasks = <<>> /\ net_request = "null"
      /\ emitted = <<>> /\ delivered = <<>> /\ posted = <<>>
  BY <1>0 DEF startLoading, LifeCycle
<1>2. ~draining /\ queuedBlocks = <<>>
  BY <1>0, <1>1 DEF ProxyInv, QueueDrains
<1>u. /\ handler' = handler /\ paused' = paused /\ queuedBlocks' = queuedBlocks
      /\ draining' = draining /\ posted' = posted /\ tracker' = tracker
      /\ net_request' = net_request /\ body' = body /\ stream_delegate' = stream_delegate
      /\ streamLeft' = streamLeft /\ received' = received /\ loading' = "loading"
  BY DEF startLoading, coreVars, streamVars
<1>3. StreamHasRequest'
  BY <1>0, <1>u DEF StreamHasRequest
<1>4. CASE /\ protocol' = TRUE /\ ioTasks' = Append(ioTasks, "Start")
           /\ UNCHANGED <<delivered, emitted, requestComplete>>
  <2>1. ioTasks' = <<"Start">> /\ ioTasks'[1] = "Start" /\ ioTasks' \in Seq({"Start", "Cancel"})
    BY <1>1, <1>4
  <2>2. TypeOK'
    BY <1>0, <1>4, <1>u, <2>1, TypeParts, Zenon
  <2>3. ProxyInv'
    <3>1. <<>> \in Seq(Block)
      OBVIOUS
    <3>2. <<>> = (<<>> \o <<>>) \o <<>> /\ IsPrefix(<<>>, <<>>)
      BY DEF IsPrefix
    <3>3. DeliveredInOrder'
      BY <1>1, <1>2, <1>4, <1>u, <3>2 DEF DeliveredInOrder
    <3> QED
      BY <1>1, <1>2, <1>4, <1>u, <3>3
         DEF ProxyInv, QueueDrains, CompletionWasDelivered
  <2>4. CoreKeepsOrder' /\ LifeCycle'
    BY <1>0, <1>1, <1>4, <1>u, <2>1 DEF CoreKeepsOrder, LifeCycle
  <2> QED
    BY <1>3, <2>2, <2>3, <2>4, HandlerParts
<1>5. CASE /\ delivered' = <<Callback("fail")>> /\ emitted' = <<Callback("fail")>>
           /\ requestComplete' = TRUE /\ UNCHANGED <<protocol, ioTasks>>
  <2> DEFINE e == Callback("fail")
             s == <<e>>
  <2>1. e \in Block /\ e.kind = "fail"
    BY CallbackFacts DEF Kinds
  <2>2. delivered' = s /\ emitted' = s /\ s \in Seq(Block) /\ Len(s) = 1 /\ s # <<>>
        /\ DOMAIN s = {1} /\ s[1] = e
    BY <1>5, <2>1
  <2> HIDE DEF e, s
  <2>3. TypeOK'
    BY <1>0, <1>5, <1>u, <2>2, TypeParts, Zenon
  <2>4. CoreKeepsOrder'
    <3>1. CallbackOrder(s)
      BY <2>1, <2>2 DEF CallbackOrder
    <3> QED
      BY <1>1, <1>u, <2>2, <3>1 DEF CoreKeepsOrder
  <2>5. LifeCycle'
    BY <1>1, <1>5, <1>u DEF LifeCycle
  <2>6. ProxyInv'
    <3>1. s = (s \o <<>>) \o <<>>
      BY <2>2, ConcatEmptySeq
    <3>2. IsPrefix(s, s)
      BY <2>2, PrefixProperties
    <3>3. DeliveredInOrder'
      BY <1>1, <1>2, <1>u, <2>2, <3>1, <3>2 DEF DeliveredInOrder
    <3> QED
      BY <1>1, <1>2, <1>5, <1>u, <3>3
         DEF ProxyInv, QueueDrains, CompletionWasDelivered
  <2> QED
    BY <1>3, <2>3, <2>4, <2>5, <2>6, HandlerParts
<1> QED
  BY <1>4, <1>5 DEF startLoading

(* stopLoading, from the run loop or from inside a block: the Cancel task   *)
(* follows the Start task, if that has not run.                             *)
LEMMA StopStep ==
  ASSUME HandlerInv, loading = "loading", StopLoading,
         UNCHANGED <<handler, posted, coreVars, emitted>>, draining' = FALSE,
         paused' \in BOOLEAN, delivered' \in Seq(Block), IsPrefix(delivered', emitted)
  PROVE  HandlerInv'
<1>0. TypeOK /\ ProxyInv /\ LifeCycle /\ CoreKeepsOrder /\ StreamHasRequest
  BY HandlerParts
<1>u. /\ handler' = handler /\ posted' = posted /\ tracker' = tracker
      /\ net_request' = net_request /\ body' = body /\ stream_delegate' = stream_delegate
      /\ streamLeft' = streamLeft /\ received' = received /\ emitted' = emitted
      /\ loading' = "stopped" /\ ioTasks' = Append(ioTasks, "Cancel") /\ protocol' = FALSE
      /\ requestComplete' = TRUE /\ queuedBlocks' = <<>>
  BY DEF StopLoading, TasksAfterCancelRequest, coreVars, streamVars
<1>1. /\ ioTasks' \in {<<"Cancel">>, <<"Start", "Cancel">>}
      /\ ioTasks' # <<>> /\ ioTasks' \in Seq({"Start", "Cancel"})
      /\ ioTasks'[1] = "Start" => ioTasks # <<>> /\ ioTasks[1] = "Start"
  <2>1. CASE ioTasks = <<>>
    <3>1. ioTasks' = <<"Cancel">>
      BY <1>u, <2>1
    <3> QED
      BY <3>1
  <2>2. CASE ioTasks = <<"Start">>
    <3> DEFINE t == <<"Start", "Cancel">>
               T == {"Start", "Cancel"}
    <3>a. t \in Seq(T) /\ Len(t) = 2 /\ t[1] = "Start" /\ t[2] = "Cancel"
      OBVIOUS
    <3>b. /\ ioTasks \in Seq(T) /\ "Cancel" \in T /\ Len(ioTasks) = 1
          /\ ioTasks[1] = "Start"
      BY <2>2
    <3> HIDE DEF t, T
    <3>0. /\ ioTasks' \in Seq(T) /\ Len(ioTasks') = Len(ioTasks) + 1
          /\ \A i \in 1..Len(ioTasks) : ioTasks'[i] = ioTasks[i]
          /\ ioTasks'[Len(ioTasks) + 1] = "Cancel"
      <4> DEFINE e == "Cancel"
      <4>1. e \in T /\ ioTasks' = Append(ioTasks, e)
        BY <1>u, <3>b
      <4> HIDE DEF e
      <4>2. ioTasks \in Seq(T)
        BY <3>b
      <4>3. /\ Append(ioTasks, e) \in Seq(T)
            /\ Len(Append(ioTasks, e)) = Len(ioTasks) + 1
            /\ \A i \in 1..Len(ioTasks) : Append(ioTasks, e)[i] = ioTasks[i]
            /\ Append(ioTasks, e)[Len(ioTasks) + 1] = e
        BY <4>1, <4>2, AppendProperties
      <4> QED
        BY <4>1, <4>3 DEF e
    <3>c. /\ ioTasks' \in Seq(T) /\ Len(ioTasks') = 2 /\ ioTasks'[2] = "Cancel"
          /\ ioTasks'[1] = "Start"
      BY <3>0, <3>b
    <3>d. \A i \in 1..2 : ioTasks'[i] = t[i]
      BY <3>a, <3>b, <3>c
    <3>e. ioTasks' = t
      BY <3>a, <3>c, <3>d, SeqEqual
    <3>1. ioTasks' = <<"Start", "Cancel">>
      BY <3>e DEF t
    <3> QED
      BY <2>2, <3>1
  <2> QED
    BY <1>0, <2>1, <2>2 DEF LifeCycle
<1>q. queuedBlocks' \in Seq(Block)
  BY <1>u
<1>2. TypeOK'
  BY <1>0, <1>1, <1>q, <1>u, TypeParts, Zenon
<1>3. ProxyInv'
  BY <1>u DEF ProxyInv, QueueDrains, CompletionWasDelivered, DeliveredInOrder
<1>4. LifeCycle'
  BY <1>0, <1>1, <1>u DEF LifeCycle
<1>5. CoreKeepsOrder' /\ StreamHasRequest'
  BY <1>0, <1>u DEF CoreKeepsOrder, StreamHasRequest
<1> QED
  BY <1>2, <1>3, <1>4, <1>5, HandlerParts

(* A step of the proxy, which has something to run only after startLoading. *)
LEMMA ProxyStep ==
  ASSUME HandlerInv, ProxyInv', UNCHANGED <<loading, handler, protocol, ioTasks, coreVars, emitted>>,
         loading = "loading",
         protocol \/ posted' = <<>>,
         paused' \in BOOLEAN, requestComplete' \in BOOLEAN, draining' \in BOOLEAN,
         queuedBlocks' \in Seq(Block), posted' \in Seq(Block), delivered' \in Seq(Block)
  PROVE  HandlerInv'
<1>0. TypeOK /\ ProxyInv /\ LifeCycle /\ CoreKeepsOrder /\ StreamHasRequest
  BY HandlerParts
<1>u. /\ handler' = handler /\ tracker' = tracker /\ protocol' = protocol
      /\ net_request' = net_request /\ body' = body /\ stream_delegate' = stream_delegate
      /\ streamLeft' = streamLeft /\ received' = received /\ emitted' = emitted
      /\ loading' = loading /\ ioTasks' = ioTasks
  BY DEF coreVars, streamVars
<1>1. TypeOK'
  BY <1>0, <1>u, TypeParts, Zenon
<1>2. LifeCycle'
  BY <1>0, <1>u DEF LifeCycle
<1>3. CoreKeepsOrder' /\ StreamHasRequest'
  BY <1>0, <1>u DEF CoreKeepsOrder, StreamHasRequest
<1> QED
  BY <1>1, <1>2, <1>3, HandlerParts

(* A block that is run is the next in the line; afterwards the client has   *)
(* heard of the end if the proxy says that it is complete.                  *)
LEMMA RunFacts ==
  ASSUME TypeOK, CompletionWasDelivered, protocol, NEW e \in Block,
         delivered' = Append(delivered, e), protocol' = protocol,
         requestComplete' = (requestComplete \/ IsTerminal(e))
  PROVE  delivered' \in Seq(Block) /\ requestComplete' \in BOOLEAN /\ CompletionWasDelivered'
<1>0. delivered \in Seq(Block) /\ requestComplete \in BOOLEAN /\ Len(delivered) \in Nat
  BY TypeParts, LenProperties
<1>1. /\ delivered' \in Seq(Block) /\ Len(delivered') = Len(delivered) + 1
      /\ DOMAIN delivered' = 1..Len(delivered') /\ DOMAIN delivered = 1..Len(delivered)
      /\ \A i \in 1..Len(delivered) : delivered'[i] = delivered[i]
      /\ delivered'[Len(delivered) + 1] = e
  BY <1>0, AppendProperties, LenProperties
<1>2. requestComplete' \in BOOLEAN
  BY Zenon
<1>3. CASE requestComplete
  <2>1. PICK i \in DOMAIN delivered : delivered[i].kind \in EndKinds
    BY <1>3 DEF CompletionWasDelivered
  <2>2. i \in DOMAIN delivered' /\ delivered'[i] = delivered[i]
    BY <1>0, <1>1
  <2> QED
    BY <1>1, <1>2, <2>1, <2>2 DEF CompletionWasDelivered
<1>4. CASE IsTerminal(e)
  <2>1. Len(delivered) + 1 \in DOMAIN delivered' /\ e.kind \in EndKinds
    BY <1>0, <1>1, <1>4 DEF IsTerminal, EndKinds
  <2> QED
    BY <1>1, <1>2, <2>1 DEF CompletionWasDelivered
<1>5. CASE ~requestComplete /\ ~IsTerminal(e)
  BY <1>1, <1>2, <1>5 DEF CompletionWasDelivered
<1> QED
  BY <1>3, <1>4, <1>5

(* A posted block is queued behind the others, run, or dropped because the  *)
(* request was stopped.                                                     *)
LEMMA PerformBlockStep ==
  ASSUME HandlerInv, performBlockOnClientThread
  PROVE  HandlerInv'
<1>0. TypeOK /\ ProxyInv /\ LifeCycle /\ CoreKeepsOrder /\ StreamHasRequest
  BY HandlerParts
<1>t. /\ queuedBlocks \in Seq(Block) /\ posted \in Seq(Block) /\ delivered \in Seq(Block)
      /\ emitted \in Seq(Block) /\ paused \in BOOLEAN /\ protocol \in BOOLEAN
      /\ requestComplete \in BOOLEAN /\ draining \in BOOLEAN
      /\ loading \in {"idle", "loading", "stopped"}
  BY <1>0, TypeParts
<1>p. QueueDrains /\ CompletionWasDelivered /\ DeliveredInOrder
  BY <1>0 DEF ProxyInv
<1>u. /\ UNCHANGED <<loading, handler, protocol, ioTasks, coreVars, emitted>>
      /\ loading' = loading /\ handler' = handler /\ protocol' = protocol
      /\ paused' = paused /\ draining' = draining /\ ioTasks' = ioTasks
      /\ emitted' = emitted /\ posted' = Tail(posted) /\ posted # <<>> /\ ~draining
  BY DEF performBlockOnClientThread
<1> DEFINE e == Head(posted)
<1>1. e \in Block /\ posted' \in Seq(Block)
  BY <1>t, <1>u, HeadThenTail
<1>2. CASE loading = "loading"
  <2>1. protocol
    BY <1>0, <1>2, <1>u DEF LifeCycle
  <2>e. emitted = (delivered \o queuedBlocks) \o posted
    BY <1>2, <1>p DEF DeliveredInOrder
  <2>2. CASE paused
    <3> HIDE DEF e
    <3>1. UNCHANGED <<delivered, requestComplete>> /\ queuedBlocks' = Append(queuedBlocks, e)
      BY <2>1, <2>2 DEF performBlockOnClientThread, MustQueue, e
    <3>2. queuedBlocks' \in Seq(Block)
      BY <1>1, <1>t, <3>1, AppendProperties
    <3>3. emitted' = (delivered' \o queuedBlocks') \o posted'
      <4>1. (delivered \o queuedBlocks) \o posted
              = (delivered \o Append(queuedBlocks, Head(posted))) \o Tail(posted)
        <5>1. /\ delivered \in Seq(Block) /\ queuedBlocks \in Seq(Block)
              /\ posted \in Seq(Block) /\ posted # <<>>
          BY <1>t, <1>u
        <5> QED
          BY <5>1, QueuesInLine
      <4> QED
        BY <1>u, <2>e, <3>1, <4>1 DEF e
    <3>4. ProxyInv'
      BY <1>p, <1>u, <2>2, <3>1, <3>3
         DEF ProxyInv, QueueDrains, CompletionWasDelivered, DeliveredInOrder
    <3> QED
      BY <1>1, <1>2, <1>t, <1>u, <2>1, <3>1, <3>2, <3>4, ProxyStep
  <2>3. CASE ~paused
    <3>0. queuedBlocks = <<>>
      BY <1>p, <1>u, <2>3 DEF QueueDrains
    <3>1. /\ queuedBlocks' = queuedBlocks /\ delivered' = Append(delivered, e)
          /\ requestComplete' = (requestComplete \/ IsTerminal(e))
      BY <2>1, <2>3 DEF performBlockOnClientThread, MustQueue, RunBlock, ClientAfter
    <3>2. delivered' \in Seq(Block) /\ requestComplete' \in BOOLEAN /\ CompletionWasDelivered'
      BY <1>0, <1>1, <1>p, <1>u, <2>1, <3>1, RunFacts
    <3>3. emitted' = (delivered' \o queuedBlocks') \o posted'
      <4>1. (delivered \o queuedBlocks) \o posted
              = (Append(delivered, Head(posted)) \o queuedBlocks) \o Tail(posted)
        BY <1>t, <1>u, <3>0, QueuesInLine
      <4> QED
        BY <1>u, <2>e, <3>1, <4>1
    <3>4. IsPrefix(delivered', emitted')
      BY <1>1, <1>t, <3>1, <3>2, <3>3, QueuesInLine
    <3>5. ProxyInv'
      BY <1>u, <3>0, <3>1, <3>2, <3>3, <3>4, <1>p
         DEF ProxyInv, QueueDrains, DeliveredInOrder
    <3> QED
      BY <1>1, <1>2, <1>t, <1>u, <2>1, <3>1, <3>2, <3>5, ProxyStep
  <2> QED
    BY <2>2, <2>3, <1>t
<1>3. CASE loading = "stopped"
  <2>1. ~protocol /\ queuedBlocks = <<>>
    BY <1>0, <1>3 DEF LifeCycle
  <2>2. /\ queuedBlocks' = queuedBlocks /\ delivered' = delivered
        /\ requestComplete' \in BOOLEAN
    <3>1. CASE paused
      BY <1>t, <2>1, <3>1 DEF performBlockOnClientThread, MustQueue
    <3>2. CASE ~paused
      <4>1. queuedBlocks' = queuedBlocks /\ delivered' = delivered
        BY <2>1, <3>2 DEF performBlockOnClientThread, MustQueue, RunBlock, ClientAfter
      <4>2. requestComplete' = (requestComplete \/ IsTerminal(Head(posted)))
        BY <3>2 DEF performBlockOnClientThread, MustQueue, RunBlock
      <4>3. requestComplete' \in BOOLEAN
        BY <4>2, Zenon
      <4> QED
        BY <4>1, <4>3
    <3> QED
      BY <3>1, <3>2
  <2>3. /\ tracker' = tracker /\ net_request' = net_request /\ body' = body
        /\ stream_delegate' = stream_delegate /\ streamLeft' = streamLeft
        /\ received' = received
    BY <1>u DEF coreVars, streamVars
  <2>4. TypeOK'
    BY <1>0, <1>1, <1>u, <2>2, <2>3, TypeParts, Zenon
  <2>5. ProxyInv'
    BY <1>3, <1>p, <1>u, <2>1, <2>2
       DEF ProxyInv, QueueDrains, CompletionWasDelivered, DeliveredInOrder
  <2>6. LifeCycle' /\ CoreKeepsOrder' /\ StreamHasRequest'
    BY <1>0, <1>3, <1>u, <2>2, <2>3 DEF LifeCycle, CoreKeepsOrder, StreamHasRequest
  <2> QED
    BY <2>4, <2>5, <2>6, HandlerParts
<1> QED
  BY <1>0, <1>2, <1>3, <1>t, <1>u DEF LifeCycle

(* One round of runQueuedBlocksOnClientThread.                             *)
LEMMA RunQueuedBlockStep ==
  ASSUME HandlerInv, RunQueuedBlock
  PROVE  HandlerInv'
<1>0. TypeOK /\ ProxyInv /\ LifeCycle /\ CoreKeepsOrder /\ StreamHasRequest
  BY HandlerParts
<1>t. /\ queuedBlocks \in Seq(Block) /\ posted \in Seq(Block) /\ delivered \in Seq(Block)
      /\ emitted \in Seq(Block)
  BY <1>0, TypeParts
<1>p. QueueDrains /\ CompletionWasDelivered /\ DeliveredInOrder
  BY <1>0 DEF ProxyInv
<1> DEFINE e == Head(queuedBlocks)
<1>1. /\ draining /\ ~paused /\ queuedBlocks # <<>> /\ loading = "loading" /\ protocol
  BY <1>p DEF RunQueuedBlock, QueueDrains
<1>2. e \in Block /\ Tail(queuedBlocks) \in Seq(Block)
  BY <1>1, <1>t, HeadThenTail
<1>u. /\ UNCHANGED <<handler, posted, coreVars, emitted>>
      /\ posted' = posted /\ emitted' = emitted
      /\ draining' = (~paused' /\ queuedBlocks' # <<>>)
      /\ delivered' = Append(delivered, e)
  BY <1>1 DEF RunQueuedBlock, ClientAfter
<1>d. draining' \in BOOLEAN
  BY <1>u, Zenon
<1>3. emitted = (Append(delivered, e) \o Tail(queuedBlocks)) \o posted
  <2>1. emitted = (delivered \o queuedBlocks) \o posted
    BY <1>1, <1>p DEF DeliveredInOrder
  <2>2. (delivered \o queuedBlocks) \o posted
          = (Append(delivered, Head(queuedBlocks)) \o Tail(queuedBlocks)) \o posted
    BY <1>1, <1>t, QueuesInLine
  <2> QED
    BY <2>1, <2>2
<1>4. delivered' \in Seq(Block)
  <2> HIDE DEF e
  <2> QED
    BY <1>2, <1>t, <1>u, AppendProperties
<1>5. IsPrefix(delivered', emitted)
  BY <1>2, <1>3, <1>4, <1>t, <1>u, QueuesInLine
<1>6. PICK nested \in {"none", "pause", "stop"} :
        /\ IF nested = "stop"
           THEN StopLoading
           ELSE /\ requestComplete' = (requestComplete \/ IsTerminal(e))
                /\ queuedBlocks' = Tail(queuedBlocks)
                /\ UNCHANGED <<loading, protocol, ioTasks>>
        /\ paused' = (nested = "pause")
  BY DEF RunQueuedBlock
<1>q. paused' \in BOOLEAN
  BY <1>6, Zenon
<1>7. CASE nested = "stop"
  <2>1. StopLoading
    BY <1>6, <1>7
  <2>2. draining' = FALSE
    BY <1>u, <2>1 DEF StopLoading
  <2> QED
    BY <1>1, <1>4, <1>5, <1>q, <1>u, <2>1, <2>2, StopStep
<1>8. CASE nested # "stop"
  <2>1. /\ requestComplete' = (requestComplete \/ IsTerminal(e))
        /\ queuedBlocks' = Tail(queuedBlocks)
        /\ UNCHANGED <<loading, protocol, ioTasks>>
    BY <1>6, <1>8
  <2>2. requestComplete' \in BOOLEAN /\ CompletionWasDelivered'
    <3> HIDE DEF e
    <3> QED
      BY <1>0, <1>1, <1>2, <1>p, <1>u, <2>1, RunFacts
  <2>3. DeliveredInOrder'
    BY <1>3, <1>5, <1>u, <2>1 DEF DeliveredInOrder
  <2>4. QueueDrains'
    BY <1>1, <1>u, <2>1 DEF QueueDrains
  <2>5. ProxyInv'
    BY <2>2, <2>3, <2>4 DEF ProxyInv
  <2> QED
    BY <1>1, <1>2, <1>4, <1>d, <1>q, <1>t, <1>u, <2>1, <2>2, <2>5, ProxyStep
<1> QED
  BY <1>7, <1>8

(* The client thread as a whole.                                           *)
LEMMA ClientSteps ==
  ASSUME HandlerInv, ClientStep
  PROVE  HandlerInv'
<1>0. TypeOK /\ ProxyInv /\ LifeCycle /\ CoreKeepsOrder /\ StreamHasRequest
  BY HandlerParts
<1>t. /\ queuedBlocks \in Seq(Block) /\ posted \in Seq(Block) /\ delivered \in Seq(Block)
      /\ paused \in BOOLEAN /\ requestComplete \in BOOLEAN /\ draining \in BOOLEAN
  BY <1>0, TypeParts
<1>p. QueueDrains /\ CompletionWasDelivered /\ DeliveredInOrder
  BY <1>0 DEF ProxyInv
<1>1. CASE stopLoading
  <2>1. /\ loading = "loading" /\ StopLoading /\ delivered' = delivered
        /\ UNCHANGED <<handler, posted, coreVars, emitted>>
        /\ draining' = FALSE /\ paused' = paused
    BY <1>1, <1>t DEF stopLoading
  <2>2. IsPrefix(delivered', emitted)
    BY <1>p, <2>1 DEF DeliveredInOrder
  <2> QED
    BY <1>t, <2>1, <2>2, StopStep
<1>2. CASE Dealloc
  <2>1. /\ loading = "stopped" /\ handler' = FALSE
        /\ UNCHANGED <<loading, protocol, paused, requestComplete, queuedBlocks, draining,
                       delivered, posted, ioTasks, tracker, net_request, body,
                       stream_delegate, streamLeft, received, emitted>>
    BY <1>2 DEF Dealloc, proxyVars, coreVars, streamVars
  <2>2. TypeOK'
    BY <1>0, <2>1, TypeParts, Zenon
  <2>3. ProxyInv'
    BY <1>p, <2>1 DEF ProxyInv, QueueDrains, CompletionWasDelivered, DeliveredInOrder
  <2>4. LifeCycle' /\ CoreKeepsOrder' /\ StreamHasRequest'
    BY <1>0, <2>1 DEF LifeCycle, CoreKeepsOrder, StreamHasRequest
  <2> QED
    BY <2>2, <2>3, <2>4, HandlerParts
<1>3. CASE pause
  <2>1. /\ loading = "loading" /\ protocol /\ ~draining /\ paused' = TRUE
        /\ UNCHANGED <<loading, handler, protocol, ioTasks, coreVars, emitted>>
        /\ UNCHANGED <<requestComplete, queuedBlocks, draining, delivered, posted>>
    BY <1>3 DEF pause
  <2>2. ProxyInv'
    BY <1>p, <2>1 DEF ProxyInv, QueueDrains, CompletionWasDelivered, DeliveredInOrder
  <2> QED
    BY <1>t, <2>1, <2>2, ProxyStep
<1>4. CASE resume
  <2>1. /\ loading = "loading" /\ protocol /\ paused' = FALSE
        /\ draining' = (queuedBlocks # <<>>)
        /\ UNCHANGED <<loading, handler, protocol, ioTasks, coreVars, emitted>>
        /\ UNCHANGED <<requestComplete, queuedBlocks, delivered, posted>>
    BY <1>4 DEF resume, DrainOnResume
  <2>2. ProxyInv'
    BY <1>p, <2>1 DEF ProxyInv, QueueDrains, CompletionWasDelivered, DeliveredInOrder
  <2>3. draining' \in BOOLEAN
    BY <2>1, Zenon
  <2> QED
    BY <1>t, <2>1, <2>2, <2>3, ProxyStep
<1> QED
  BY <1>1, <1>2, <1>3, <1>4, StartLoadingStep, PerformBlockStep, RunQueuedBlockStep
     DEF ClientStep

-----------------------------------------------------------------------------
(* What the client and the core rely on, from the invariant: the line of    *)
(* blocks is empty behind the call that ends the request.                   *)
LEMMA HandlerConsequences ==
  ASSUME HandlerInv
  PROVE  NoBlockAfterCompletion /\ CoreOutlivesRequest /\ ClientCallbackOrder
<1>0. TypeOK /\ ProxyInv /\ LifeCycle /\ CoreKeepsOrder
  BY HandlerParts
<1>t. /\ queuedBlocks \in Seq(Block) /\ posted \in Seq(Block) /\ delivered \in Seq(Block)
      /\ emitted \in Seq(Block) /\ loading \in {"idle", "loading", "stopped"}
  BY <1>0, TypeParts
<1>1. IsPrefix(delivered, emitted) /\ CallbackOrder(emitted)
  BY <1>0 DEF ProxyInv, DeliveredInOrder, CoreKeepsOrder
<1>2. ClientCallbackOrder
  BY <1>1, <1>t, PrefixKeepsCallbackOrder DEF ClientCallbackOrder
<1>3. CoreOutlivesRequest
  BY <1>0, <1>t DEF CoreOutlivesRequest, LifeCycle
<1>4. ASSUME requestComplete, protocol
      PROVE  posted = <<>> /\ queuedBlocks = <<>>
  <2>1. loading = "loading"
    BY <1>0, <1>4, <1>t DEF LifeCycle
  <2>2. emitted = (delivered \o queuedBlocks) \o posted
    BY <1>0, <2>1 DEF ProxyInv, DeliveredInOrder
  <2>3. PICK i \in DOMAIN delivered : delivered[i].kind \in EndKinds
    BY <1>0, <1>4 DEF ProxyInv, CompletionWasDelivered
  <2>4. /\ Len(delivered) \in Nat /\ Len(queuedBlocks) \in Nat /\ Len(posted) \in Nat
        /\ Len(emitted) \in Nat
        /\ DOMAIN delivered = 1..Len(delivered) /\ DOMAIN emitted = 1..Len(emitted)
        /\ Len(posted) = 0 => posted = <<>>
        /\ Len(queuedBlocks) = 0 => queuedBlocks = <<>>
    BY <1>t, LenProperties, EmptySeq
  <2>5. Len(emitted) = Len(delivered) + Len(queuedBlocks) + Len(posted)
    <3> DEFINE p == delivered \o queuedBlocks
    <3>1. p \in Seq(Block) /\ Len(p) = Len(delivered) + Len(queuedBlocks)
      BY <1>t, ConcatProperties
    <3> HIDE DEF p
    <3>2. Len(p \o posted) = Len(p) + Len(posted)
      BY <1>t, <3>1, ConcatProperties
    <3> QED
      BY <2>2, <2>4, <3>1, <3>2 DEF p
  <2>6. Len(delivered) <= Len(emitted) /\ \A k \in 1..Len(delivered) : delivered[k] = emitted[k]
    BY <1>1, <1>t, PrefixProperties
  <2>7. ASSUME Len(emitted) > Len(delivered)
        PROVE  FALSE
    <3>1. i \in DOMAIN emitted /\ Len(emitted) \in DOMAIN emitted /\ i < Len(emitted)
      BY <2>3, <2>4, <2>7
    <3>2. emitted[i].kind \in EndKinds
      BY <2>3, <2>4, <2>6
    <3> QED
      BY <1>1, <3>1, <3>2 DEF CallbackOrder
  <2>8. Len(queuedBlocks) = 0 /\ Len(posted) = 0
    BY <2>4, <2>5, <2>6, <2>7
  <2> QED
    BY <2>4, <2>8
<1>5. NoBlockAfterCompletion
  BY <1>4 DEF NoBlockAfterCompletion
<1> QED
  BY <1>2, <1>3, <1>5

-----------------------------------------------------------------------------
(* The upload of a chunked body.                                           *)

(* The types of its variables...                                           *)
UploadTypeOK ==
  /\ produced \in 0..BodyLength /\ consumed \in 0..produced
  /\ emptyReads \in 0..MaxEmptyReads
  /\ closed \in BOOLEAN /\ signalled \in BOOLEAN /\ pending_stream \in BOOLEAN
  /\ pending_internal_read \in BOOLEAN /\ is_final_chunk \in BOOLEAN
  /\ is_front_of_stream \in BOOLEAN /\ eof \in BOOLEAN
  /\ pending_read_buffer \in 0..MaxBuffer
  /\ upload \in {"none", "initialized", "failed"}
  /\ inits \in 0..MaxInits
  /\ uploaded \in Seq(1..BodyLength)

(* ... and the part of the inductive invariant that is about them.         *)
UploadInv ==
  UploadTypeOK /\ PendingReadHasBuffer /\ UploadFollowsStream /\ AttemptSendsBody

(* The type of a load, in two parts.                                       *)
LEMMA LoadTypeParts == LoadTypeOK <=> TypeOK /\ UploadTypeOK
<1> HIDE HandlerAssumption, UploaderAssumption
<1> QED
  BY Zenon DEF LoadTypeOK, UploadTypeOK

(* How many bytes a read can return.                                       *)
LEMMA ReadFacts ==
  ASSUME UploadTypeOK, NEW stream \in BOOLEAN, NEW buffer \in 1..MaxBuffer,
         NEW n \in ReadableBytes(stream, buffer)
  PROVE  /\ n \in Nat /\ consumed + n <= produced
         /\ n # 0 => consumed < produced
         /\ stream /\ hasBytesAvailable /\ n = 0 => emptyReads < MaxEmptyReads
<1>0. /\ produced \in Nat /\ consumed \in Nat /\ consumed <= produced
      /\ emptyReads \in Nat /\ buffer \in Nat \ {0}
  BY DEF UploadTypeOK
<1>1. CASE ~stream \/ ~hasBytesAvailable
  BY <1>0, <1>1 DEF ReadableBytes
<1>2. CASE stream /\ hasBytesAvailable
  <2> DEFINE d == produced - consumed
             m == Min({buffer, d})
  <2>1. buffer \in Int /\ d \in Int /\ d > 0 /\ consumed < produced
    BY <1>0, <1>2 DEF hasBytesAvailable
  <2>2. n \in (IF emptyReads < MaxEmptyReads THEN {0} ELSE {}) \cup 1..m
    BY <1>2 DEF ReadableBytes
  <2> HIDE DEF d
  <2>3. m = IF buffer <= d THEN buffer ELSE d
    BY <2>1, MinMaxOfPair
  <2> HIDE DEF m
  <2>4. m \in Nat /\ m <= d /\ m >= 1
    BY <1>0, <2>1, <2>3
  <2>5. (n = 0 /\ emptyReads < MaxEmptyReads) \/ n \in 1..m
    BY <2>2
  <2> QED
    BY <1>0, <2>1, <2>4, <2>5 DEF d
<1> QED
  BY <1>1, <1>2

(* Upload() in an attempt that has begun: it hands on the next bytes of the *)
(* stream, or the end when all of it has been read.                         *)
LEMMA UploadStepFacts ==
  ASSUME UploadInv, NEW final \in BOOLEAN, NEW stream \in BOOLEAN,
         NEW buffer \in 1..MaxBuffer, Upload(final, stream, buffer),
         upload = "initialized", final => closed /\ consumed = produced,
         UNCHANGED <<produced, closed, upload, inits>>,
         signalled' \in BOOLEAN, pending_stream' \in BOOLEAN,
         is_final_chunk' \in BOOLEAN, is_final_chunk' => final
  PROVE  UploadInv'
<1>t. UploadTypeOK /\ PendingReadHasBuffer /\ UploadFollowsStream /\ AttemptSendsBody
  BY DEF UploadInv
<1>n. /\ produced \in Nat /\ consumed \in Nat /\ consumed <= produced
      /\ produced <= BodyLength /\ emptyReads \in Nat /\ emptyReads <= MaxEmptyReads
  BY <1>t DEF UploadTypeOK
<1>u. /\ produced' = produced /\ closed' = closed /\ upload' = upload /\ inits' = inits
      /\ 0 \in 0..MaxBuffer /\ buffer \in 0..MaxBuffer /\ buffer # 0
  OBVIOUS
<1>f. is_front_of_stream' = FALSE
  BY DEF Upload, FrontAfterUpload
<1>s. /\ Len(uploaded) = consumed /\ uploaded = [k \in 1..consumed |-> k]
      /\ eof => consumed = BodyLength
      /\ closed => produced = BodyLength
  BY <1>t DEF UploadFollowsStream, AttemptSendsBody
<1>1. CASE final
  <2>1. /\ eof' = TRUE /\ pending_read_buffer' = 0 /\ pending_internal_read' = FALSE
        /\ uploaded' = uploaded \o [k \in 1..0 |-> consumed + k]
        /\ consumed' = consumed /\ emptyReads' = emptyReads
    BY <1>1 DEF Upload, Complete
  <2>2. uploaded' = uploaded
    <3>1. [k \in 1..0 |-> consumed + k] = <<>>
      OBVIOUS
    <3>2. uploaded \o <<>> = uploaded
      BY <1>t, ConcatEmptySeq DEF UploadTypeOK
    <3> QED
      BY <2>1, <3>1, <3>2
  <2>3. UploadTypeOK'
    BY <1>t, <1>f, <1>u, <2>1, <2>2, Zenon DEF UploadTypeOK
  <2>4. AttemptSendsBody'
    BY <1>1, <1>s, <1>t, <2>1, <2>2 DEF AttemptSendsBody
  <2>5. UploadFollowsStream' /\ PendingReadHasBuffer'
    BY <1>1, <1>f, <1>s, <1>t, <2>1, <2>2 DEF UploadFollowsStream, PendingReadHasBuffer
  <2> QED
    BY <2>3, <2>4, <2>5 DEF UploadInv
<1>2. CASE ~final
  <2>1. PICK n \in ReadableBytes(stream, buffer) :
          /\ consumed' = consumed + n
          /\ emptyReads' = IF Reads(final, stream) /\ n = 0
                           THEN emptyReads + 1 ELSE emptyReads
          /\ IF IsPending(n)
             THEN /\ pending_internal_read' = TRUE
                  /\ pending_read_buffer' = buffer
                  /\ UNCHANGED uploaded
             ELSE Complete(n)
          /\ UNCHANGED eof
    BY <1>2 DEF Upload
  <2>2. /\ n \in Nat /\ consumed + n <= produced
        /\ n # 0 => consumed < produced
        /\ stream /\ hasBytesAvailable /\ n = 0 => emptyReads < MaxEmptyReads
    BY <1>t, <2>1, ReadFacts
  <2>3. consumed' \in 0..produced /\ emptyReads' \in 0..MaxEmptyReads
    BY <1>n, <2>1, <2>2 DEF Reads
  <2>4. CASE n = 0
    <3>1. /\ pending_internal_read' = TRUE /\ pending_read_buffer' = buffer
          /\ uploaded' = uploaded /\ eof' = eof /\ consumed' = consumed
      BY <1>n, <2>1, <2>4 DEF IsPending
    <3>2. UploadTypeOK'
      BY <1>t, <1>f, <1>u, <2>3, <3>1, Zenon DEF UploadTypeOK
    <3>3. AttemptSendsBody'
      BY <1>t, <3>1 DEF AttemptSendsBody
    <3>4. UploadFollowsStream' /\ PendingReadHasBuffer'
      <4>1. PendingReadHasBuffer'
        BY <1>u, <3>1 DEF PendingReadHasBuffer
      <4>2. ~is_final_chunk' /\ ~is_front_of_stream' /\ upload' = "initialized"
        BY <1>2, <1>f, <1>u
      <4>a. Len(uploaded) = consumed /\ (closed => produced = BodyLength)
        BY <1>s
      <4>3. Len(uploaded') = consumed' /\ (closed' => produced' = BodyLength)
        BY <1>u, <3>1, <4>a
      <4>4. UploadFollowsStream'
        BY <4>2, <4>3 DEF UploadFollowsStream
      <4> QED
        BY <4>1, <4>4
    <3> QED
      BY <3>2, <3>3, <3>4 DEF UploadInv
  <2>5. CASE n # 0
    <3>1. /\ pending_internal_read' = FALSE /\ pending_read_buffer' = 0 /\ eof' = eof
          /\ uploaded' = uploaded \o [k \in 1..n |-> consumed + k]
      BY <2>1, <2>5 DEF IsPending, Complete
    <3>2. /\ uploaded' = [k \in 1..consumed' |-> k] /\ uploaded' \in Seq(1..BodyLength)
          /\ Len(uploaded') = consumed'
      <4>1. consumed + n <= BodyLength
        BY <1>n, <2>2
      <4> QED
        BY <1>n, <1>s, <2>1, <2>2, <3>1, <4>1, CountingOn
    <3>3. ~eof
      BY <1>n, <1>s, <2>2, <2>5
    <3>4. UploadTypeOK'
      BY <1>t, <1>f, <1>u, <2>3, <3>1, <3>2, Zenon DEF UploadTypeOK
    <3>5. AttemptSendsBody'
      BY <3>1, <3>2, <3>3 DEF AttemptSendsBody
    <3>6. UploadFollowsStream' /\ PendingReadHasBuffer'
      BY <1>2, <1>f, <1>s, <1>t, <3>1, <3>2, <3>3 DEF UploadFollowsStream, PendingReadHasBuffer
    <3> QED
      BY <3>4, <3>5, <3>6 DEF UploadInv
  <2> QED
    BY <2>4, <2>5
<1> QED
  BY <1>1, <1>2

(* UploadWhenReady, which uploads only when a read of the network waits.   *)
LEMMA UploadWhenReadyFacts ==
  ASSUME UploadInv, NEW final \in BOOLEAN, NEW stream \in BOOLEAN,
         UploadWhenReady(final, stream), final => closed /\ consumed = produced,
         UNCHANGED <<produced, closed, upload, inits>>,
         signalled' \in BOOLEAN, pending_stream' \in BOOLEAN
  PROVE  UploadInv'
<1>t. UploadTypeOK /\ PendingReadHasBuffer /\ UploadFollowsStream /\ AttemptSendsBody
  BY DEF UploadInv
<1>0. is_final_chunk' = final
  BY DEF UploadWhenReady
<1>1. CASE pending_internal_read
  <2>1. upload = "initialized"
    BY <1>1, <1>t DEF UploadFollowsStream
  <2>2. pending_read_buffer \in 1..MaxBuffer
    BY <1>1, <1>t DEF UploadTypeOK, PendingReadHasBuffer
  <2>3. Upload(final, stream, pending_read_buffer)
    BY <1>1 DEF UploadWhenReady, UploadsNow
  <2> QED
    BY <1>0, <2>1, <2>2, <2>3, UploadStepFacts
<1>2. CASE ~pending_internal_read
  <2>1. UNCHANGED <<pending_read_buffer, pending_internal_read, is_front_of_stream,
                    consumed, emptyReads, uploaded, eof>>
    BY <1>2 DEF UploadWhenReady, UploadsNow
  <2>2. UploadTypeOK'
    BY <1>0, <1>t, <2>1 DEF UploadTypeOK
  <2>3. UploadFollowsStream' /\ PendingReadHasBuffer' /\ AttemptSendsBody'
    BY <1>0, <1>t, <2>1 DEF UploadFollowsStream, PendingReadHasBuffer, AttemptSendsBody
  <2> QED
    BY <2>2, <2>3 DEF UploadInv
<1> QED
  BY <1>1, <1>2

(* A new uploader, before and after any request.                           *)
LEMMA NewUploader ==
  /\ UploaderInit => UploadInv
  /\ UploaderDeleted => UploadInv'
<1>0. /\ 0 \in 0..BodyLength /\ 0 \in 0..0 /\ 0 \in 0..MaxEmptyReads /\ 0 \in 0..MaxBuffer
      /\ 0 \in 0..MaxInits /\ <<>> \in Seq(1..BodyLength)
  OBVIOUS
<1>1. ASSUME UploaderInit PROVE UploadInv
  <2>1. UploadTypeOK
    BY <1>0, <1>1, Zenon DEF UploaderInit, UploadTypeOK
  <2>2. PendingReadHasBuffer /\ UploadFollowsStream /\ AttemptSendsBody
    BY <1>1 DEF UploaderInit, PendingReadHasBuffer, UploadFollowsStream, AttemptSendsBody
  <2> QED
    BY <2>1, <2>2 DEF UploadInv
<1>2. ASSUME UploaderDeleted PROVE UploadInv'
  <2>1. UploadTypeOK'
    BY <1>0, <1>2, Zenon DEF UploaderDeleted, UploadTypeOK
  <2>2. PendingReadHasBuffer' /\ UploadFollowsStream' /\ AttemptSendsBody'
    BY <1>2 DEF UploaderDeleted, PendingReadHasBuffer, UploadFollowsStream, AttemptSendsBody
  <2> QED
    BY <2>1, <2>2 DEF UploadInv
<1> QED
  BY <1>1, <1>2

(* The uploader stays as it is or goes with its request.                   *)
LEMMA UploaderFollowsFacts ==
  ASSUME UploadInv, UploaderFollows
  PROVE  UploadInv'
<1>1. CASE UNCHANGED uploadVars
  BY <1>1 DEF UploadInv, UploadTypeOK, PendingReadHasBuffer, UploadFollowsStream,
              AttemptSendsBody, uploadVars, inputVars, uploaderVars, netVars
<1> QED
  BY <1>1, NewUploader DEF UploaderFollows

-----------------------------------------------------------------------------
(* The inductive invariant of a load.                                      *)
IndInv == HandlerInv /\ UploadInv

(* The uploader's own steps that leave the handler alone.                  *)
LEMMA UploaderSteps ==
  ASSUME UploadInv, Produce \/ ReadInternal \/ InitUpload \/ HasBytesAvailable
  PROVE  UploadInv'
<1>t. UploadTypeOK /\ PendingReadHasBuffer /\ UploadFollowsStream /\ AttemptSendsBody
  BY DEF UploadInv
<1>1. CASE Produce
  <2>1. UNCHANGED <<consumed, signalled, emptyReads, pending_stream, pending_read_buffer,
                    pending_internal_read, is_final_chunk, is_front_of_stream, upload,
                    inits, uploaded, eof>>
    BY <1>1 DEF Produce, uploaderVars, netVars
  <2>2. /\ produced \in 0..BodyLength /\ consumed \in 0..produced /\ closed \in BOOLEAN
        /\ ~closed
    BY <1>1, <1>t DEF UploadTypeOK, Produce
  <2>3. /\ produced' \in 0..BodyLength /\ consumed' \in 0..produced'
        /\ closed' => produced' = BodyLength
    BY <1>1, <2>1, <2>2 DEF Produce
  <2>c. closed' \in BOOLEAN
    BY <1>1, <2>2, Zenon DEF Produce
  <2>4. UploadTypeOK'
    BY <1>t, <2>1, <2>3, <2>c, Zenon DEF UploadTypeOK
  <2>5. UploadFollowsStream' /\ PendingReadHasBuffer' /\ AttemptSendsBody'
    BY <1>t, <2>1, <2>2, <2>3 DEF UploadFollowsStream, PendingReadHasBuffer, AttemptSendsBody
  <2> QED
    BY <2>4, <2>5 DEF UploadInv
<1>2. CASE ReadInternal
  <2>1. PICK buffer \in 1..MaxBuffer : Upload(is_final_chunk, pending_stream, buffer)
    BY <1>2 DEF ReadInternal
  <2>2. /\ upload = "initialized" /\ UNCHANGED <<produced, closed, upload, inits>>
        /\ pending_stream' = pending_stream /\ is_final_chunk' = is_final_chunk
    BY <1>2 DEF ReadInternal, MayRead
  <2>3. signalled' = (signalled /\ ~Reads(is_final_chunk, pending_stream))
    BY <1>2 DEF ReadInternal
  <2>4. signalled' \in BOOLEAN
    BY <2>3, Zenon
  <2>5. is_final_chunk \in BOOLEAN /\ pending_stream \in BOOLEAN
    BY <1>t DEF UploadTypeOK
  <2>6. is_final_chunk => closed /\ consumed = produced
    BY <1>t DEF UploadFollowsStream
  <2>7. is_final_chunk' \in BOOLEAN /\ (is_final_chunk' => is_final_chunk)
        /\ pending_stream' \in BOOLEAN
    BY <2>2, <2>5
  <2> QED
    BY <2>1, <2>2, <2>4, <2>5, <2>6, <2>7, UploadStepFacts
<1>3. CASE InitUpload
  <2>1. /\ UNCHANGED <<produced, consumed, closed, signalled, emptyReads, pending_stream,
                       is_front_of_stream>>
        /\ pending_read_buffer' = 0 /\ pending_internal_read' = FALSE
        /\ is_final_chunk' = FALSE /\ uploaded' = <<>> /\ eof' = FALSE
        /\ upload' = (IF is_front_of_stream THEN "initialized" ELSE "failed")
        /\ inits < MaxInits /\ inits' = inits + 1
    BY <1>3 DEF InitUpload, ResetInternal, InitInternal, inputVars
  <2>2. /\ inits' \in 0..MaxInits /\ 0 \in 0..MaxBuffer /\ <<>> \in Seq(1..BodyLength)
        /\ upload' \in {"none", "initialized", "failed"}
    BY <1>t, <2>1 DEF UploadTypeOK
  <2>3. UploadTypeOK'
    BY <1>t, <2>1, <2>2, Zenon DEF UploadTypeOK
  <2>4. Len(uploaded') = 0 /\ (is_front_of_stream => consumed = 0)
    BY <1>t, <2>1 DEF UploadFollowsStream
  <2>5. UploadFollowsStream' /\ PendingReadHasBuffer'
    BY <1>t, <2>1, <2>4 DEF UploadFollowsStream, PendingReadHasBuffer
  <2>6. AttemptSendsBody'
    BY <2>1, <2>4 DEF AttemptSendsBody
  <2> QED
    BY <2>3, <2>5, <2>6 DEF UploadInv
<1>4. CASE HasBytesAvailable
  <2>1. /\ UploadWhenReady(FALSE, TRUE) /\ pending_stream' = TRUE
        /\ UNCHANGED <<produced, closed, upload, inits>> /\ signalled' = ~pending_internal_read
    BY <1>4 DEF HasBytesAvailable, UploadsNow
  <2>2. signalled' \in BOOLEAN
    BY <2>1, Zenon
  <2> QED
    BY <2>1, <2>2, UploadWhenReadyFacts
<1> QED
  BY <1>1, <1>2, <1>3, <1>4

(* The end of the stream: the core stops listening and the final chunk is   *)
(* known, all of the stream having been read.                               *)
LEMMA EndEncounteredStep ==
  ASSUME IndInv, EndEncountered
  PROVE  IndInv'
<1>t. HandlerInv /\ UploadInv /\ UploadTypeOK
  BY DEF IndInv, UploadInv
<1>1. /\ UploadWhenReady(TRUE, FALSE) /\ pending_stream' = FALSE /\ closed
      /\ UNCHANGED <<produced, closed, upload, inits>> /\ signalled' = signalled
      /\ ~(consumed < produced)
  BY DEF EndEncountered, hasBytesAvailable
<1>2. consumed = produced /\ signalled' \in BOOLEAN
  BY <1>1, <1>t DEF UploadTypeOK
<1>3. UploadInv'
  BY <1>1, <1>2, <1>t, UploadWhenReadyFacts
<1>4. /\ Silent /\ onIOThread /\ UNCHANGED <<net_request, body, received>>
      /\ tracker' = tracker /\ stream_delegate' = FALSE /\ streamLeft' = streamLeft
  BY DEF EndEncountered
<1>5. tracker \in BOOLEAN /\ streamLeft \in 0..StreamLength
  BY <1>t, HandlerParts, TypeParts
<1>6. HandlerInv'
  BY <1>4, <1>5, <1>t, QuietStep
<1> QED
  BY <1>3, <1>6 DEF IndInv

(* Every step keeps the invariant.                                         *)
LEMMA IndInvNext ==
  ASSUME IndInv, [Next]_allVars
  PROVE  IndInv'
<1>0. HandlerInv /\ UploadInv
  BY DEF IndInv
<1>1. ASSUME HandlerInv', UploaderFollows
      PROVE  IndInv'
  BY <1>0, <1>1, UploaderFollowsFacts DEF IndInv
<1>2. ASSUME UNCHANGED vars
      PROVE  HandlerInv'
  <2>1. UNCHANGED <<loading, handler, protocol, paused, requestComplete, queuedBlocks,
                    draining, delivered, ioTasks, emitted, posted, tracker, net_request,
                    body, stream_delegate, streamLeft, received>>
    BY <1>2 DEF vars, clientVars, proxyVars, coreVars, streamVars
  <2> QED
    BY <1>0, <2>1 DEF HandlerInv, TypeOK, StreamHasRequest, CoreKeepsOrder, LifeCycle,
                      QueueDrains, CompletionWasDelivered, DeliveredInOrder
<1>3. CASE Load(ClientStep)
  BY <1>0, <1>1, <1>3, ClientSteps DEF Load
<1>4. CASE Load(RunTask) \/ Load(StreamStep) \/ Load(ReadStep) \/ Load(LoseTracker)
  BY <1>0, <1>1, <1>4, CoreSteps DEF Load
<1>5. CASE NetLoad(NetStep)
  BY <1>0, <1>1, <1>5, CoreSteps DEF NetLoad, Load
<1>6. CASE Produce \/ ReadInternal \/ InitUpload \/ HasBytesAvailable
  <2>1. UNCHANGED vars
    BY <1>6 DEF Produce, ReadInternal, InitUpload, HasBytesAvailable
  <2> QED
    BY <1>0, <1>2, <1>6, <2>1, UploaderSteps DEF IndInv
<1>7. CASE EndEncountered
  BY <1>7, EndEncounteredStep
<1>8. CASE OnReadFails \/ InitFailed
  <2>1. StopRequestWithError /\ onIOThread /\ UploaderDeleted
    BY <1>8 DEF OnReadFails, InitFailed
  <2>2. net_request # "null"
    <3>1. stream_delegate => net_request # "null"
      BY <1>0, HandlerParts DEF StreamHasRequest
    <3> QED
      BY <1>8, <3>1 DEF OnReadFails, InitFailed, MayRead, MaySignal, Sending, Loading, Listening
  <2> QED
    BY <1>0, <2>1, <2>2, ErrorStep, NewUploader DEF IndInv
<1>9. CASE UNCHANGED allVars
  <2>1. UNCHANGED vars /\ UNCHANGED uploadVars
    BY <1>9 DEF allVars
  <2>2. UploadInv'
    BY <1>0, <2>1 DEF UploadInv, UploadTypeOK, PendingReadHasBuffer, UploadFollowsStream,
              AttemptSendsBody, uploadVars, inputVars, uploaderVars, netVars
  <2> QED
    BY <1>2, <2>1, <2>2 DEF IndInv
<1> QED
  BY <1>3, <1>4, <1>5, <1>6, <1>7, <1>8, <1>9 DEF Next, UploadStep

(* It holds before the system calls startLoading.                          *)
LEMMA IndInvInit ==
  ASSUME LoadInit
  PROVE  IndInv
<1>0. <<>> \in Seq(Block) /\ <<>> \in Seq({"Start", "Cancel"}) /\ "null" \in Phases
      /\ StreamLength \in 0..StreamLength /\ 0 \in 0..MaxData
  BY DEF Phases
<1>1. TypeOK
  BY <1>0, TypeParts, Zenon DEF LoadInit, Init
<1>2. /\ loading = "idle" /\ handler /\ ~protocol /\ ~paused /\ ~requestComplete
      /\ queuedBlocks = <<>> /\ posted = <<>> /\ ~draining /\ delivered = <<>>
      /\ ioTasks = <<>> /\ net_request = "null" /\ ~stream_delegate /\ emitted = <<>>
  BY DEF LoadInit, Init
<1>a. <<>> = (<<>> \o <<>>) \o <<>> /\ IsPrefix(<<>>, <<>>)
  BY DEF IsPrefix
<1>3. DeliveredInOrder
  BY <1>2, <1>a DEF DeliveredInOrder
<1>4. CoreKeepsOrder
  BY <1>2 DEF CoreKeepsOrder, CallbackOrder
<1>5. StreamHasRequest /\ LifeCycle /\ QueueDrains /\ CompletionWasDelivered
  BY <1>2 DEF StreamHasRequest, LifeCycle, QueueDrains, CompletionWasDelivered
<1>6. UploadInv
  BY NewUploader DEF LoadInit
<1> QED
  BY <1>1, <1>3, <1>4, <1>5, <1>6 DEF IndInv, HandlerInv

(* Every state of a load satisfies it.                                     *)
LEMMA IndInvariance == Spec => []IndInv
<1> HIDE HandlerAssumption, UploaderAssumption
<1> QED
  BY IndInvInit, IndInvNext, PTL DEF Spec

-----------------------------------------------------------------------------
(* What the DCHECKs and the unchecked pointers of the handler, the core and *)
(* the uploader rely on holds for every response, body, buffer and number   *)
(* of restarts: net_request_ outlives the stream's events, the core         *)
(* outlives the URLRequest, and no block is left behind the end.            *)
THEOREM LoadInvariance == Spec => []LoadInv
<1>1. IndInv => LoadInv
  <2> SUFFICES ASSUME IndInv PROVE LoadInv
    OBVIOUS
  <2>1. /\ TypeOK /\ StreamHasRequest /\ CoreKeepsOrder /\ LifeCycle /\ QueueDrains
        /\ CompletionWasDelivered
    BY DEF IndInv, HandlerInv
  <2>2. UploadTypeOK /\ PendingReadHasBuffer /\ UploadFollowsStream
    BY DEF IndInv, UploadInv
  <2>3. NoBlockAfterCompletion /\ CoreOutlivesRequest
    BY HandlerConsequences DEF IndInv
  <2> QED
    BY <2>1, <2>2, <2>3, LoadTypeParts DEF LoadInv
<1> HIDE HandlerAssumption, UploaderAssumption
<1> QED
  BY <1>1, IndInvariance, PTL

(* The client of a load hears what the core told the proxy, in its order,   *)
(* however the system pauses and resumes it.                                *)
THEOREM CallsAlwaysInOrder == Spec => []DeliveredInOrder
<1>1. IndInv => DeliveredInOrder
  BY DEF IndInv, HandlerInv
<1> HIDE HandlerAssumption, UploaderAssumption
<1> QED
  BY <1>1, IndInvariance, PTL

(* The contract of NSURLProtocolClient: one response before the data, and   *)
(* nothing after the end, a failure or a redirect.                          *)
THEOREM ClientContract == Spec => []ClientCallbackOrder
<1>1. IndInv => ClientCallbackOrder
  BY HandlerConsequences DEF IndInv
<1> HIDE HandlerAssumption, UploaderAssumption
<1> QED
  BY <1>1, IndInvariance, PTL

(* Each attempt to upload a chunked body sends the body from its first      *)
(* byte, or fails.                                                          *)
THEOREM AttemptsAlwaysSendBody == Spec => []AttemptSendsBody
<1>1. IndInv => AttemptSendsBody
  BY DEF IndInv, UploadInv
<1> HIDE HandlerAssumption, UploaderAssumption
<1> QED
  BY <1>1, IndInvariance, PTL

(* After stopLoading nothing on either thread calls the client.            *)
THEOREM SilentAfterStop == Spec => NoCallbackAfterStop
<1>1. ASSUME IndInv, [Next]_allVars
      PROVE  [loading = "stopped" => UNCHANGED delivered]_vars
  <2> SUFFICES ASSUME loading = "stopped"
               PROVE  delivered' = delivered
    OBVIOUS
  <2>1. ~protocol /\ ~draining
    BY <1>1 DEF IndInv, HandlerInv, LifeCycle
  <2>2. ASSUME ClientStep
        PROVE  delivered' = delivered
    BY <2>1, <2>2 DEF ClientStep, startLoading, stopLoading, Dealloc, pause, resume,
         performBlockOnClientThread, MustQueue, RunBlock, ClientAfter, RunQueuedBlock
  <2>3. ASSUME RunTask \/ StreamStep \/ ReadStep \/ LoseTracker \/ NetStep
        PROVE  delivered' = delivered
    BY <2>3 DEF RunTask, Start, Cancel, StreamStep, StreamHasBytesAvailable,
         StreamEndEncountered, StreamErrorOccurred, ReadStep, ReadData, ReadPending,
         ReadEnd, ReadError, LoseTracker, NetStep, OnReceivedRedirect, OnAuthRequired,
         OnCertificateRequested, OnSSLCertificateError, OnResponseStarted, onIOThread,
         clientVars
  <2>4. ASSUME UploadStep
        PROVE  delivered' = delivered
    BY <2>4 DEF UploadStep, Produce, ReadInternal, InitUpload, HasBytesAvailable,
         EndEncountered, OnReadFails, InitFailed, onIOThread, vars, clientVars
  <2> QED
    BY <1>1, <2>2, <2>3, <2>4 DEF Next, Load, NetLoad, allVars, vars, clientVars
<1> HIDE HandlerAssumption, UploaderAssumption
<1> QED
  BY <1>1, IndInvariance, PTL DEF Spec, NoCallbackAfterStop

HIDE HandlerAssumption
HIDE UploaderAssumption


-----------------------------------------------------------------------------
(* Queues: whether a member of E is in the queue q, whether the last of     *)
(* them is in G, and the like.                                              *)

(* A member of E is in the queue.                                          *)
Somewhere(q, E) == \E n \in 1 .. Len(q) : q[n] \in E

(* The last member of E in the queue is in G.                              *)
LastIn(q, E, G) ==
  \A n \in 1 .. Len(q) : q[n] \in E =>
    q[n] \in G \/ \E m \in 1 .. Len(q) : m > n /\ q[m] \in E

(* What comes after the last member of N is in G.                          *)
SinceIn(q, N, G) ==
  \A n \in 1 .. Len(q) : (\E m \in 1 .. Len(q) : m >= n /\ q[m] \in N) \/ q[n] \in G

(* A member of F is in G, and the first of E.                              *)
FirstIn(q, E, F, G) ==
  \A n \in 1 .. Len(q) : q[n] \in F =>
    q[n] \in G /\ \A m \in 1 .. Len(q) : m < n => q[m] \notin E

(* The places of a queue to which x is appended.                           *)
LEMMA AppendPlaces ==
  ASSUME NEW S, NEW q \in Seq(S), NEW x \in S
  PROVE  LET r == Append(q, x) IN
         /\ r \in Seq(S) /\ Len(q) \in Nat /\ Len(r) = Len(q) + 1
         /\ r[Len(q) + 1] = x /\ \A n \in 1 .. Len(q) : r[n] = q[n]
OBVIOUS

(* The places of the rest of a queue.                                      *)
LEMMA TailPlaces ==
  ASSUME NEW S, NEW q \in Seq(S), q # <<>>
  PROVE  LET r == Tail(q) IN
         /\ r \in Seq(S) /\ Head(q) \in S /\ Len(r) \in Nat /\ Len(q) = Len(r) + 1
         /\ q[1] = Head(q) /\ \A n \in 1 .. Len(r) : r[n] = q[n + 1]
OBVIOUS

(* The places of two queues in line.                                       *)
LEMMA ConcatPlaces ==
  ASSUME NEW S, NEW p \in Seq(S), NEW q \in Seq(S)
  PROVE  LET r == p \o q IN
         /\ r \in Seq(S) /\ Len(p) \in Nat /\ Len(q) \in Nat /\ Len(r) = Len(p) + Len(q)
         /\ \A n \in 1 .. Len(p) : r[n] = p[n]
         /\ \A n \in 1 .. Len(q) : r[Len(p) + n] = q[n]
OBVIOUS

(* What an appended element changes.                                       *)
LEMMA QueueAppend ==
  ASSUME NEW S, NEW q \in Seq(S), NEW x \in S
  PROVE  /\ \A E : Somewhere(Append(q, x), E) <=> Somewhere(q, E) \/ x \in E
         /\ \A E, G : (LastIn(q, E, G) \/ x \in E) /\ (x \in E => x \in G) =>
              LastIn(Append(q, x), E, G)
         /\ \A N, G : (SinceIn(q, N, G) /\ x \in G) \/ x \in N => SinceIn(Append(q, x), N, G)
         /\ \A E, F, G : FirstIn(q, E, F, G) /\ (x \in F => x \in G /\ ~Somewhere(q, E)) =>
              FirstIn(Append(q, x), E, F, G)
<1> DEFINE r == Append(q, x)
           L == Len(q)
<1>1. /\ L \in Nat /\ Len(r) = L + 1
      /\ r[L + 1] = x /\ \A n \in 1 .. L : r[n] = q[n]
  BY AppendPlaces
<1> HIDE DEF r, L
<1>2. \A E : Somewhere(r, E) <=> Somewhere(q, E) \/ x \in E
  BY <1>1 DEF Somewhere, L
<1>3. ASSUME NEW E, NEW G, LastIn(q, E, G) \/ x \in E, x \in E => x \in G
      PROVE  LastIn(r, E, G)
  BY <1>1, <1>3 DEF LastIn, L
<1>4. ASSUME NEW N, NEW G, (SinceIn(q, N, G) /\ x \in G) \/ x \in N
      PROVE  SinceIn(r, N, G)
  BY <1>1, <1>4 DEF SinceIn, L
<1>5. ASSUME NEW E, NEW F, NEW G, FirstIn(q, E, F, G), x \in F => x \in G /\ ~Somewhere(q, E)
      PROVE  FirstIn(r, E, F, G)
  BY <1>1, <1>5 DEF FirstIn, Somewhere, L
<1> QED
  BY <1>2, <1>3, <1>4, <1>5 DEF r

(* What taking the first element changes.                                  *)
LEMMA QueueTail ==
  ASSUME NEW S, NEW q \in Seq(S), q # <<>>
  PROVE  /\ \A E : Somewhere(q, E) <=> Head(q) \in E \/ Somewhere(Tail(q), E)
         /\ \A E, G : LastIn(q, E, G) =>
              /\ LastIn(Tail(q), E, G)
              /\ Head(q) \in E => Head(q) \in G \/ Somewhere(Tail(q), E)
         /\ \A N, G : SinceIn(q, N, G) =>
              SinceIn(Tail(q), N, G) /\ (Head(q) \in G \/ Somewhere(q, N))
         /\ \A E, F, G : FirstIn(q, E, F, G) =>
              /\ FirstIn(Tail(q), E, F, G)
              /\ Head(q) \in F => Head(q) \in G
              /\ Head(q) \in E => ~Somewhere(Tail(q), F)
<1> DEFINE r == Tail(q)
           L == Len(r)
           h == Head(q)
<1>1. /\ L \in Nat /\ Len(q) = L + 1
      /\ q[1] = h /\ \A n \in 1 .. L : r[n] = q[n + 1]
  BY TailPlaces
<1>2. /\ \A n \in 1 .. L : n + 1 \in 1 .. Len(q) /\ r[n] = q[n + 1] /\ n + 1 > 1
      /\ \A m \in 1 .. Len(q) : m = 1 \/ \E n \in 1 .. L : m = n + 1
      /\ \A m, n \in 1 .. L : (m > n <=> m + 1 > n + 1) /\ (m >= n <=> m + 1 >= n + 1)
      /\ 1 \in 1 .. Len(q) /\ \A n \in 1 .. L : ~(1 > n + 1) /\ ~(1 >= n + 1)
  <2> HIDE DEF r, L
  <2>1. ASSUME NEW m \in 1 .. Len(q), m # 1 PROVE \E n \in 1 .. L : m = n + 1
    <3>1. m - 1 \in 1 .. L /\ m = (m - 1) + 1
      BY <1>1, <2>1
    <3> QED
      BY <3>1
  <2> QED
    BY <1>1, <2>1
<1> HIDE DEF r, h
<1>3. \A E : Somewhere(q, E) <=> h \in E \/ Somewhere(r, E)
  <2>1. ASSUME NEW E, Somewhere(q, E), h \notin E PROVE Somewhere(r, E)
    <3>1. PICK m \in 1 .. Len(q) : q[m] \in E
      BY <2>1, Zenon DEF Somewhere
    <3>2. m # 1
      BY <1>1, <2>1, <3>1, Zenon
    <3>3. PICK n \in 1 .. L : m = n + 1
      BY <1>2, <3>2, Zenon
    <3> QED
      BY <1>2, <3>1, <3>3, Zenon DEF Somewhere, L
  <2>2. ASSUME NEW E, Somewhere(r, E) PROVE Somewhere(q, E)
    BY <1>2, <2>2, Zenon DEF Somewhere, L
  <2>3. ASSUME NEW E, h \in E PROVE Somewhere(q, E)
    BY <1>1, <1>2, <2>3, Zenon DEF Somewhere
  <2> QED
    BY <2>1, <2>2, <2>3, Zenon
<1>4. ASSUME NEW E, NEW G, LastIn(q, E, G)
      PROVE  LastIn(r, E, G) /\ (h \in E => h \in G \/ Somewhere(r, E))
  <2>1. ASSUME NEW n \in 1 .. L, r[n] \in E, r[n] \notin G
        PROVE  \E m \in 1 .. L : m > n /\ r[m] \in E
    <3>1. PICK m \in 1 .. Len(q) : m > n + 1 /\ q[m] \in E
      BY <1>2, <1>4, <2>1, Zenon DEF LastIn
    <3>2. PICK l \in 1 .. L : m = l + 1
      <4>1. m # 1
        BY <2>1, <3>1
      <4> QED
        BY <1>2, <4>1, Zenon
    <3> QED
      BY <1>2, <2>1, <3>1, <3>2, Zenon
  <2>2. ASSUME h \in E, h \notin G PROVE Somewhere(r, E)
    <3>1. PICK m \in 1 .. Len(q) : m > 1 /\ q[m] \in E
      BY <1>1, <1>2, <1>4, <2>2, Zenon DEF LastIn
    <3>2. m # 1
      BY <3>1
    <3>3. PICK l \in 1 .. L : m = l + 1
      BY <1>2, <3>2, Zenon
    <3>4. r[l] \in E
      BY <1>2, <3>1, <3>3, Zenon
    <3> QED
      BY <3>4, Zenon DEF Somewhere, L
  <2> QED
    BY <2>1, <2>2, Zenon DEF LastIn, L
<1>5. ASSUME NEW N, NEW G, SinceIn(q, N, G)
      PROVE  SinceIn(r, N, G) /\ (h \in G \/ Somewhere(q, N))
  <2>1. ASSUME NEW n \in 1 .. L, r[n] \notin G
        PROVE  \E m \in 1 .. L : m >= n /\ r[m] \in N
    <3>1. PICK m \in 1 .. Len(q) : m >= n + 1 /\ q[m] \in N
      BY <1>2, <1>5, <2>1, Zenon DEF SinceIn
    <3>2. PICK l \in 1 .. L : m = l + 1
      <4>1. m # 1
        BY <2>1, <3>1
      <4> QED
        BY <1>2, <4>1, Zenon
    <3> QED
      BY <1>2, <2>1, <3>1, <3>2, Zenon
  <2>2. h \in G \/ Somewhere(q, N)
    BY <1>1, <1>2, <1>5, Zenon DEF SinceIn, Somewhere
  <2> QED
    BY <2>1, <2>2, Zenon DEF SinceIn, L
<1> HIDE DEF L
<1>6. ASSUME NEW E, NEW F, NEW G, FirstIn(q, E, F, G)
      PROVE  /\ FirstIn(r, E, F, G)
             /\ h \in F => h \in G
             /\ h \in E => ~Somewhere(r, F)
  <2>1. h \in F => h \in G
    BY <1>1, <1>6 DEF FirstIn
  <2>2. FirstIn(r, E, F, G)
    <3> SUFFICES ASSUME NEW n \in 1 .. Len(r), r[n] \in F
                 PROVE  r[n] \in G /\ \A m \in 1 .. Len(r) : m < n => r[m] \notin E
      BY DEF FirstIn
    <3>1. n + 1 \in 1 .. Len(q) /\ q[n + 1] \in F
      BY <1>1 DEF L
    <3>2. q[n + 1] \in G /\ \A m \in 1 .. Len(q) : m < n + 1 => q[m] \notin E
      BY <1>6, <3>1 DEF FirstIn
    <3> QED
      BY <1>1, <3>1, <3>2 DEF L
  <2>3. ASSUME h \in E, NEW n \in 1 .. Len(r), r[n] \in F PROVE FALSE
    <3>1. n + 1 \in 1 .. Len(q) /\ q[n + 1] \in F /\ 1 \in 1 .. Len(q) /\ 1 < n + 1
      BY <1>1, <2>3 DEF L
    <3> QED
      BY <1>1, <1>6, <2>3, <3>1 DEF FirstIn
  <2> QED
    BY <2>1, <2>2, <2>3 DEF Somewhere
<1> QED
  BY <1>3, <1>4, <1>5, <1>6 DEF r, h

(* What a second queue in line changes.                                    *)
LEMMA QueueConcat ==
  ASSUME NEW S, NEW p \in Seq(S), NEW q \in Seq(S)
  PROVE  /\ \A E : Somewhere(p \o q, E) <=> Somewhere(p, E) \/ Somewhere(q, E)
         /\ \A E, G : (LastIn(p, E, G) \/ Somewhere(q, E)) /\ (\A n \in 1 .. Len(q) : q[n] \in G) =>
              LastIn(p \o q, E, G)
         /\ \A N, G : SinceIn(p, N, G) /\ (\A n \in 1 .. Len(q) : q[n] \in G) =>
              SinceIn(p \o q, N, G)
         /\ \A E, F, G : FirstIn(p, E, F, G) /\ ~Somewhere(q, F) => FirstIn(p \o q, E, F, G)
<1> DEFINE r == p \o q
           L == Len(p)
           M == Len(q)
<1>1. /\ L \in Nat /\ M \in Nat /\ Len(r) = L + M
      /\ \A n \in 1 .. L : r[n] = p[n]
      /\ \A n \in 1 .. M : r[L + n] = q[n]
  BY ConcatPlaces
<1>2. /\ \A n \in 1 .. L : n \in 1 .. Len(r) /\ r[n] = p[n]
      /\ \A n \in 1 .. M : L + n \in 1 .. Len(r) /\ r[L + n] = q[n]
      /\ \A m \in 1 .. Len(r) : m \in 1 .. L \/ \E n \in 1 .. M : m = L + n
      /\ \A n \in 1 .. L, m \in 1 .. M : L + m > n
  <2> HIDE DEF r, L, M
  <2>1. ASSUME NEW m \in 1 .. Len(r), m \notin 1 .. L PROVE \E n \in 1 .. M : m = L + n
    <3>1. m - L \in 1 .. M /\ m = L + (m - L)
      BY <1>1, <2>1
    <3> QED
      BY <3>1
  <2> QED
    BY <1>1, <2>1
<1>3. \A E : Somewhere(r, E) <=> Somewhere(p, E) \/ Somewhere(q, E)
  <2> HIDE DEF r
  <2> QED
    BY <1>2, Zenon DEF Somewhere, L, M
<1>4. ASSUME NEW E, NEW G, LastIn(p, E, G) \/ Somewhere(q, E), \A n \in 1 .. M : q[n] \in G
      PROVE  LastIn(r, E, G)
  <2> HIDE DEF r
  <2> SUFFICES ASSUME NEW n \in 1 .. Len(r), r[n] \in E, r[n] \notin G
               PROVE  \E m \in 1 .. Len(r) : m > n /\ r[m] \in E
    BY Zenon DEF LastIn
  <2>1. n \in 1 .. L /\ r[n] = p[n]
    BY <1>2, <1>4, Zenon
  <2>2. CASE Somewhere(q, E)
    <3>1. PICK m \in 1 .. M : q[m] \in E
      BY <2>2, Zenon DEF Somewhere, M
    <3> QED
      BY <1>2, <2>1, <3>1, Zenon
  <2>3. CASE LastIn(p, E, G)
    <3>1. PICK m \in 1 .. L : m > n /\ p[m] \in E
      BY <2>1, <2>3, Zenon DEF LastIn, L
    <3> QED
      BY <1>2, <3>1, Zenon
  <2> QED
    BY <1>4, <2>2, <2>3
<1>5. ASSUME NEW N, NEW G, SinceIn(p, N, G), \A n \in 1 .. M : q[n] \in G
      PROVE  SinceIn(r, N, G)
  <2> HIDE DEF r
  <2> SUFFICES ASSUME NEW n \in 1 .. Len(r), r[n] \notin G
               PROVE  \E m \in 1 .. Len(r) : m >= n /\ r[m] \in N
    BY Zenon DEF SinceIn
  <2>1. n \in 1 .. L /\ r[n] = p[n]
    BY <1>2, <1>5, Zenon
  <2>2. PICK m \in 1 .. L : m >= n /\ p[m] \in N
    BY <1>5, <2>1, Zenon DEF SinceIn, L
  <2> QED
    BY <1>2, <2>2, Zenon
<1>6. ASSUME NEW E, NEW F, NEW G, FirstIn(p, E, F, G), ~Somewhere(q, F)
      PROVE  FirstIn(r, E, F, G)
  <2> HIDE DEF r
  <2> SUFFICES ASSUME NEW n \in 1 .. Len(r), r[n] \in F
               PROVE  r[n] \in G /\ \A m \in 1 .. Len(r) : m < n => r[m] \notin E
    BY Zenon DEF FirstIn
  <2>1. n \in 1 .. L /\ r[n] = p[n]
    BY <1>2, <1>6, Zenon DEF Somewhere, M
  <2>2. r[n] \in G /\ \A m \in 1 .. L : m < n => p[m] \notin E
    BY <1>6, <2>1, Zenon DEF FirstIn, L
  <2>3. \A m \in 1 .. Len(r) : m < n => m \in 1 .. L
    <3> HIDE DEF L, M
    <3> QED
      BY <1>1, <2>1
  <2> QED
    BY <1>2, <2>2, <2>3, Zenon
<1> QED
  BY <1>3, <1>4, <1>5, <1>6 DEF r, M

-----------------------------------------------------------------------------
(* The tasks of the cookie store.                                          *)

USE CookieAssumption

IOTasks == Answers \cup {Notify}

(* The answers, tasks and requests when the keys of h are observed.        *)
AnswersOf(h) == {x \in Answers : x.task.op = "cache" => x.task.key \in h}
IOTasksOf(h) == AnswersOf(h) \cup {Notify}
RequestsOf(h) == {t \in Requests : t.op = "cache" => t.key \in h}

(* The answers about a key, its first fills, the answers that give the key  *)
(* the value v, and those that hold the jar s.                              *)
Brings(k) == {x \in IOTasks : ReadsKey(x.task, k)}
Fills(k) == {x \in IOTasks : ReadsKey(x.task, k) /\ ~x.task.run_callbacks}
Shows(k, v) == {x \in IOTasks : Of(k, x.cookies) = v}
Holding(s) == {x \in IOTasks : x.cookies = s}
Notices == {x \in IOTasks : x.task.op = "notify"}
FlushAnswers == {x \in IOTasks : x.task.op = "flush"}
Updates == {x \in IOTasks : x.task.op = "cache" /\ x.task.run_callbacks}
Wants(k) == {t \in Requests : ReadsKey(t, k)}

(* The parts of a task.                                                    *)
LEMMA CookieTaskFacts ==
  /\ \A w \in {"cache", "flush"}, k \in Keys \cup {Ids}, r \in BOOLEAN :
       Read(w, k, r) \in ReadTasks
  /\ \A w, k, r : Read(w, k, r).op = w /\ Read(w, k, r).key = k /\ Read(w, k, r).run_callbacks = r
  /\ \A t \in ReadTasks : /\ t.op \in {"cache", "flush"} /\ t.key \in Keys \cup {Ids}
                          /\ t.run_callbacks \in BOOLEAN
  /\ \A i \in Ids, v \in Values \cup {None} : Write(i, v) \in WriteTasks
  /\ \A i \in Ids, v \in Values : Delete(i, v) \in DeleteTasks
  /\ \A i, v : Write(i, v).op = "set" /\ Delete(i, v).op = "delete"
  /\ \A t \in WriteTasks : t.op = "set" /\ t.id \in Ids /\ t.value \in Values \cup {None}
  /\ \A t \in DeleteTasks : t.op = "delete" /\ t.id \in Ids /\ t.value \in Values
<1>1. \A w \in {"cache", "flush"}, k \in Keys \cup {Ids}, r \in BOOLEAN :
        Read(w, k, r) \in ReadTasks
  BY DEF ReadTasks
<1>2. \A w, k, r : Read(w, k, r).op = w /\ Read(w, k, r).key = k /\ Read(w, k, r).run_callbacks = r
  BY DEF Read
<1>3. ASSUME NEW t \in ReadTasks
      PROVE  /\ t.op \in {"cache", "flush"} /\ t.key \in Keys \cup {Ids}
             /\ t.run_callbacks \in BOOLEAN
  <2>1. PICK w \in {"cache", "flush"}, k \in Keys \cup {Ids}, r \in BOOLEAN : t = Read(w, k, r)
    BY <1>3 DEF ReadTasks
  <2> QED
    BY <1>2, <2>1
<1>4. /\ \A i \in Ids, v \in Values \cup {None} : Write(i, v) \in WriteTasks
      /\ \A i \in Ids, v \in Values : Delete(i, v) \in DeleteTasks
  BY DEF WriteTasks, DeleteTasks
<1>5. /\ \A i, v : Write(i, v).op = "set" /\ Write(i, v).id = i /\ Write(i, v).value = v
      /\ \A i, v : Delete(i, v).op = "delete" /\ Delete(i, v).id = i /\ Delete(i, v).value = v
  BY DEF Write, Delete
<1>6. \A t \in WriteTasks : t.op = "set" /\ t.id \in Ids /\ t.value \in Values \cup {None}
  BY <1>5 DEF WriteTasks
<1>7. \A t \in DeleteTasks : t.op = "delete" /\ t.id \in Ids /\ t.value \in Values
  BY <1>5 DEF DeleteTasks
<1>8. \A i, v : Write(i, v).op = "set" /\ Delete(i, v).op = "delete"
  BY <1>5, Zenon
<1> QED
  BY <1>1, <1>2, <1>3, <1>4, <1>6, <1>7, <1>8

(* The parts of an answer.                                                 *)
LEMMA AnswerFacts ==
  /\ \A t \in ReadTasks \cup DeleteTasks, c \in Jar : Reply(t, c) \in Answers
  /\ \A t, c : Reply(t, c).task = t /\ Reply(t, c).cookies = c
  /\ \A x \in Answers : x.task \in ReadTasks \cup DeleteTasks /\ x.cookies \in Jar
  /\ Notify.task.op = "notify"
  /\ \A x \in Answers : x.task.op # "notify"
<1>1. \A t, c : Reply(t, c).task = t /\ Reply(t, c).cookies = c
  BY DEF Reply
<1>2. \A t \in ReadTasks \cup DeleteTasks, c \in Jar : Reply(t, c) \in Answers
  BY DEF Reply, Answers
<1>3. \A x \in Answers : x.task \in ReadTasks \cup DeleteTasks /\ x.cookies \in Jar
  BY DEF Answers
<1>4. Notify.task.op = "notify"
  BY DEF Notify
<1>5. \A t \in ReadTasks \cup DeleteTasks : t.op # "notify"
  <2>1. /\ \A t \in ReadTasks : t.op \in {"cache", "flush"}
        /\ \A t \in DeleteTasks : t.op = "delete"
    BY CookieTaskFacts, Zenon
  <2> QED
    BY <2>1
<1>6. \A x \in Answers : x.task.op # "notify"
  BY <1>3, <1>5, Zenon
<1> QED
  BY <1>1, <1>2, <1>3, <1>4, <1>6, Zenon

(* Where an answer belongs.                                                *)
LEMMA AnswerBelongs ==
  ASSUME NEW t \in ReadTasks \cup DeleteTasks, NEW c \in Jar
  PROVE  LET x == Reply(t, c) IN
         /\ x \in IOTasks
         /\ \A k : x \in Brings(k) <=> ReadsKey(t, k)
         /\ \A k : x \in Fills(k) <=> ReadsKey(t, k) /\ ~t.run_callbacks
         /\ \A k, v : x \in Shows(k, v) <=> Of(k, c) = v
         /\ \A s : x \in Holding(s) <=> c = s
         /\ x \notin Notices
         /\ x \in FlushAnswers <=> t.op = "flush"
         /\ x \in Updates <=> t.op = "cache" /\ t.run_callbacks
         /\ \A h : (t.op = "cache" => t.key \in h) => x \in AnswersOf(h) /\ x \in IOTasksOf(h)
<1> DEFINE x == Reply(t, c)
<1>1. x \in Answers /\ x.task = t /\ x.cookies = c
  BY AnswerFacts, Zenon
<1>2. x.task.op # "notify"
  BY <1>1, AnswerFacts, Zenon
<1> HIDE DEF x
<1>3. x \in IOTasks /\ x \notin Notices
  BY <1>1, <1>2, Zenon DEF IOTasks, Notices
<1>4. /\ \A k : x \in Brings(k) <=> ReadsKey(t, k)
      /\ \A k : x \in Fills(k) <=> ReadsKey(t, k) /\ ~t.run_callbacks
      /\ \A k, v : x \in Shows(k, v) <=> Of(k, c) = v
      /\ \A s : x \in Holding(s) <=> c = s
      /\ x \in FlushAnswers <=> t.op = "flush"
      /\ x \in Updates <=> t.op = "cache" /\ t.run_callbacks
  BY <1>1, <1>3, Zenon DEF Brings, Fills, Shows, Holding, FlushAnswers, Updates
<1>5. \A h : (t.op = "cache" => t.key \in h) => x \in AnswersOf(h) /\ x \in IOTasksOf(h)
  BY <1>1, Zenon DEF AnswersOf, IOTasksOf
<1> QED
  BY <1>3, <1>4, <1>5, Zenon DEF x

(* Where a notice belongs.                                                 *)
LEMMA NoticeBelongs ==
  /\ Notify \in IOTasks /\ Notify \in Notices /\ Notify \notin FlushAnswers /\ Notify \notin Updates
  /\ \A k : Notify \notin Brings(k) /\ Notify \notin Fills(k)
  /\ \A h : Notify \in IOTasksOf(h)
<1>1. Notify \in IOTasks /\ Notify.task.op = "notify"
  BY AnswerFacts, Zenon DEF IOTasks
<1>2. Notify.task.op # "cache" /\ Notify.task.op # "flush"
  BY <1>1
<1> QED
  BY <1>1, <1>2, Zenon DEF Notices, FlushAnswers, Updates, Brings, Fills, IOTasksOf, ReadsKey

(* The queues of fewer observed keys are queues of more.                    *)
LEMMA QueuesOfMore ==
  ASSUME NEW h, NEW g, h \subseteq g
  PROVE  /\ Seq(IOTasksOf(h)) \subseteq Seq(IOTasksOf(g)) /\ Seq(AnswersOf(h)) \subseteq Seq(AnswersOf(g))
         /\ Seq(RequestsOf(h)) \subseteq Seq(RequestsOf(g))
         /\ Seq(IOTasksOf(h)) \subseteq Seq(IOTasks) /\ Seq(AnswersOf(h)) \subseteq Seq(IOTasks)
         /\ Seq(AnswersOf(h)) \subseteq Seq(Answers) /\ Seq(RequestsOf(h)) \subseteq Seq(Requests)
<1>1. /\ IOTasksOf(h) \subseteq IOTasksOf(g) /\ AnswersOf(h) \subseteq AnswersOf(g)
      /\ RequestsOf(h) \subseteq RequestsOf(g)
      /\ IOTasksOf(h) \subseteq IOTasks /\ AnswersOf(h) \subseteq IOTasks
      /\ AnswersOf(h) \subseteq Answers /\ RequestsOf(h) \subseteq Requests
  BY Zenon DEF IOTasksOf, AnswersOf, RequestsOf, IOTasks
<1>2. \A S, T : S \subseteq T => Seq(S) \subseteq Seq(T)
  OBVIOUS
<1> QED
  BY <1>1, <1>2, Zenon

(* SetToSeq enumerates a finite set.                                       *)
LEMMA SetToSeqProperties ==
  ASSUME NEW S, IsFiniteSet(S)
  PROVE  /\ SetToSeq(S) \in Seq(S) /\ DOMAIN SetToSeq(S) = 1 .. Len(SetToSeq(S))
         /\ \A x \in S : \E k \in 1 .. Len(SetToSeq(S)) : SetToSeq(S)[k] = x
<1> DEFINE n == Cardinality(S)
<1>1. n \in Nat /\ ExistsBijection(1 .. n, S)
  BY FS_CardinalityType
<1>2. \E f \in [1 .. n -> S] : IsInjective(f)
  <2>1. PICK f \in Bijection(1 .. n, S) : TRUE
    BY <1>1, Zenon DEF ExistsBijection
  <2>2. f \in [1 .. n -> S] /\ IsInjective(f)
    BY <2>1, Zenon DEF Bijection, Injection
  <2> QED
    BY <2>2, Zenon
<1>3. SetToSeq(S) \in [1 .. n -> S] /\ IsInjective(SetToSeq(S))
  BY <1>2, Zenon DEF SetToSeq
<1>4. SetToSeq(S) \in SetToSeqs(S)
  BY <1>3 DEF SetToSeqs, IsInjective
<1> QED
  BY <1>4, SetToSeqsProperties, Zenon

(* What the change of a cookie has read: every observed key.                *)
LEMMA ReadsOfChangeFacts ==
  ASSUME hook_map \subseteq Keys
  PROVE  /\ ReadsOfChange \in Seq(ReadTasks) /\ ReadsOfChange \in Seq(RequestsOf(hook_map))
         /\ Len(ReadsOfChange) \in Nat /\ DOMAIN ReadsOfChange = 1 .. Len(ReadsOfChange)
         /\ \A n \in 1 .. Len(ReadsOfChange) :
              /\ ReadsOfChange[n] \in ReadTasks /\ ReadsOfChange[n].op = "cache"
              /\ ReadsOfChange[n].key \in hook_map /\ ReadsOfChange[n].run_callbacks
         /\ \A k \in hook_map : Somewhere(ReadsOfChange, Wants(k))
<1> DEFINE s == KeysToRead
           r == ReadsOfChange
<1>1. s \in Seq(hook_map) /\ DOMAIN s = 1 .. Len(s) /\ \A k \in hook_map : \E n \in 1 .. Len(s) : s[n] = k
  <2>1. IsFiniteSet(hook_map)
    BY FS_Subset
  <2> QED
    BY <2>1, SetToSeqProperties, Zenon DEF KeysToRead
<1>2. r = [n \in 1 .. Len(s) |-> Read("cache", s[n], TRUE)]
  BY <1>1, Zenon DEF ReadsOfChange
<1>3. Len(s) \in Nat /\ \A n \in 1 .. Len(s) : s[n] \in hook_map
  BY <1>1
<1> HIDE DEF s, r
<1>4. ASSUME NEW n \in 1 .. Len(s)
      PROVE  /\ r[n] \in ReadTasks /\ r[n].op = "cache" /\ r[n].key = s[n]
             /\ r[n].run_callbacks /\ r[n] \in Requests
  <2>1. r[n] = Read("cache", s[n], TRUE)
    BY <1>2, Zenon
  <2>2. s[n] \in Keys \cup {Ids} /\ "cache" \in {"cache", "flush"} /\ TRUE \in BOOLEAN
    BY <1>3
  <2>3. r[n] \in ReadTasks
    <3>1. Read("cache", s[n], TRUE) \in ReadTasks
      BY <2>2, CookieTaskFacts, Zenon
    <3> QED
      BY <2>1, <3>1, Zenon
  <2>4. r[n].op = "cache" /\ r[n].key = s[n] /\ r[n].run_callbacks
    BY <2>1 DEF Read
  <2> QED
    BY <2>3, <2>4, Zenon DEF Requests
<1>5. DOMAIN r = 1 .. Len(s) /\ Len(r) = Len(s)
  BY <1>2, <1>3
<1>6. r \in Seq(ReadTasks)
  <2>1. \A n \in 1 .. Len(s) : r[n] \in ReadTasks
    BY <1>4, Zenon
  <2>2. r = [n \in 1 .. Len(s) |-> r[n]]
    BY <1>2
  <2>3. r \in [1 .. Len(s) -> ReadTasks]
    BY <2>1, <2>2
  <2> QED
    BY <1>3, <2>3, SeqDef
<1>7. r \in Seq(RequestsOf(hook_map))
  <2>1. \A n \in 1 .. Len(s) : r[n] \in RequestsOf(hook_map)
    BY <1>3, <1>4, Zenon DEF RequestsOf
  <2> QED
    BY <1>3, <1>5, <1>6, <2>1
<1>8. ASSUME NEW k \in hook_map PROVE Somewhere(r, Wants(k))
  <2>1. PICK n \in 1 .. Len(s) : s[n] = k
    BY <1>1, Zenon DEF s
  <2>2. r[n] \in Wants(k)
    BY <1>4, <2>1, Zenon DEF Wants, ReadsKey
  <2> QED
    BY <1>5, <2>2, Zenon DEF Somewhere
<1>9. \A n \in 1 .. Len(r) : /\ r[n] \in ReadTasks /\ r[n].op = "cache"
                              /\ r[n].key \in hook_map /\ r[n].run_callbacks
  BY <1>3, <1>4, <1>5, Zenon
<1> QED
  BY <1>3, <1>5, <1>6, <1>7, <1>8, <1>9, Zenon DEF r

(* CookieCache::Update leaves the cookies it was given in the cache; a      *)
(* subscriber that knew what the cache held and is called knows them too.   *)
LEMMA UpdateCacheFacts ==
  ASSUME NEW k \in Keys, NEW c \in Jar, NEW run, UpdateCache(k, c, run),
         DOMAIN cache = Keys, DOMAIN seen = Keys,
         \A j \in Keys : /\ cache[j] \in [j -> Values \cup {None}]
                         /\ seen[j] \in [j -> Values \cup {None}]
  PROVE  /\ DOMAIN cache' = Keys /\ DOMAIN seen' = Keys
         /\ \A j \in Keys : /\ cache'[j] \in [j -> Values \cup {None}]
                            /\ seen'[j] \in [j -> Values \cup {None}]
         /\ cache'[k] = Of(k, c)
         /\ \A j \in Keys : j # k => cache'[j] = cache[j] /\ seen'[j] = seen[j]
         /\ ~run => seen' = seen
         /\ run /\ seen[k] = cache[k] => seen'[k] = Of(k, c)
<1> DEFINE new == Of(k, c)
           changed == Differ(cache[k], new)
           z == [i \in k |-> IF i \in changed THEN new[i] ELSE seen[k][i]]
           V == Values \cup {None}
<1>1. k \subseteq Ids
  OBVIOUS
<1>2. new = [i \in k |-> c[i]] /\ DOMAIN new = k /\ new \in [k -> V]
  BY <1>1 DEF Of, Jar
<1>3. changed = {i \in k : new[i] # cache[k][i]}
  BY <1>2, Zenon DEF Differ
<1>4. /\ cache' = IF changed = {} THEN cache ELSE [cache EXCEPT ![k] = new]
      /\ seen' = IF ~run THEN seen ELSE [seen EXCEPT ![k] = z]
  BY DEF UpdateCache
<1>5. cache[k] \in [k -> V] /\ seen[k] \in [k -> V]
  OBVIOUS
<1> HIDE DEF new, changed, V
<1>6. cache'[k] = new
  <2>1. CASE changed = {}
    <3>1. \A i \in k : cache[k][i] = new[i]
      BY <1>3, <2>1, Zenon
    <3>2. cache[k] = new
      BY <1>2, <1>5, <3>1
    <3> QED
      BY <1>4, <2>1, <3>2, Zenon
  <2>2. CASE changed # {}
    BY <1>4, <2>2
  <2> QED
    BY <2>1, <2>2
<1>7. z \in [k -> V]
  BY <1>2, <1>5
<1>8. ASSUME seen[k] = cache[k] PROVE z = new
  <2>1. \A i \in k : z[i] = new[i]
    BY <1>3, <1>8
  <2> QED
    BY <1>2, <1>7, <2>1
<1> HIDE DEF z
<1>9. DOMAIN cache' = Keys /\ \A j \in Keys : j # k => cache'[j] = cache[j]
  BY <1>4
<1>10. CASE ~run
  BY <1>2, <1>4, <1>5, <1>6, <1>9, <1>10, Zenon DEF V, new
<1>11. CASE run
  <2>1. seen' = [seen EXCEPT ![k] = z]
    BY <1>4, <1>11, Zenon
  <2>2. DOMAIN seen' = Keys /\ seen'[k] = z /\ \A j \in Keys : j # k => seen'[j] = seen[j]
    BY <2>1
  <2>3. \A j \in Keys : cache'[j] \in [j -> V] /\ seen'[j] \in [j -> V]
    <3> SUFFICES ASSUME NEW j \in Keys PROVE cache'[j] \in [j -> V] /\ seen'[j] \in [j -> V]
      OBVIOUS
    <3>1. CASE j = k
      BY <1>2, <1>6, <1>7, <2>2, <3>1, Zenon
    <3>2. CASE j # k
      <4>1. cache[j] \in [j -> V] /\ seen[j] \in [j -> V]
        BY Zenon DEF V
      <4> QED
        BY <1>9, <2>2, <3>2, <4>1, Zenon
    <3> QED
      BY <3>1, <3>2
  <2>4. seen[k] = cache[k] => seen'[k] = new
    BY <1>8, <2>2, Zenon
  <2> QED
    BY <1>6, <1>9, <1>11, <2>2, <2>3, <2>4, Zenon DEF V, new
<1> QED
  BY <1>10, <1>11, Zenon

-----------------------------------------------------------------------------
(* The inductive invariant.                                                *)

(* ReadsCatchUp and SubscribersFollowCache for a key, with the requests w,  *)
(* the answers q, the cached value v and the subscriber's value z.          *)
Catching(k, w, q, v, s) ==
  \/ Somewhere(w, Wants(k))
  \/ /\ LastIn(q, Brings(k), Shows(k, Of(k, s)))
     /\ Somewhere(q, Brings(k)) \/ v = Of(k, s)
Following(k, q, v, z) ==
  /\ FirstIn(q, Brings(k), Fills(k), Shows(k, z))
  /\ Somewhere(q, Fills(k)) \/ v = z

PlainTypes ==
  /\ kind \in {"NSHTTP", "WKHTTP", "Persistent"}
  /\ store \in Jar /\ monster \in Jar
  /\ notifications \in Nat /\ announced \in BOOLEAN
  /\ hook_map \subseteq Keys /\ refreshed \subseteq hook_map
  /\ DOMAIN cache = Keys /\ DOMAIN seen = Keys
  /\ \A k \in Keys : cache[k] \in [k -> Values \cup {None}]
                     /\ seen[k] \in [k -> Values \cup {None}]
  /\ flush_closure \in BOOLEAN /\ timer \in BOOLEAN /\ (timer => flush_closure)
  /\ changes \in 0..MaxChanges /\ flushes \in 0..MaxFlushes

QueueTypes ==
  /\ io \in Seq(IOTasksOf(hook_map)) /\ completions \in Seq(AnswersOf(hook_map))
  /\ wk \in Seq(RequestsOf(hook_map)) /\ monsterTasks \in Seq(RequestsOf(hook_map))

Current == kind = "NSHTTP" /\ notifications = 0 => SinceIn(io, Notices, Holding(store))
CatchUp ==
  kind # "Persistent" /\ notifications = 0 /\ ~Somewhere(io, Notices) =>
    \A k \in hook_map : Catching(k, wk, io \o completions, cache[k], store)
FollowUp == kind = "NSHTTP" => \A k \in hook_map : Following(k, io, cache[k], seen[k])
FlushUp ==
  kind = "NSHTTP" =>
    /\ flush_closure => timer \/ Somewhere(io, FlushAnswers)
    /\ announced /\ notifications = 0 /\ ~Somewhere(io, Notices) =>
         timer \/ Somewhere(io, FlushAnswers) \/ monster = store
ReadUp ==
  kind = "Persistent" =>
    /\ ~Somewhere(io, Updates)
    /\ \A k \in refreshed : Somewhere(monsterTasks, Wants(k)) \/ cache[k] = Of(k, monster)

CookieIndInv ==
  /\ PlainTypes /\ QueueTypes /\ TasksFollowKind
  /\ Current /\ CatchUp /\ FollowUp /\ FlushUp /\ ReadUp

(* The queues of the invariant.                                            *)
LEMMA CookieQueues ==
  ASSUME CookieIndInv
  PROVE  /\ io \in Seq(IOTasks) /\ completions \in Seq(IOTasks)
         /\ wk \in Seq(Requests) /\ monsterTasks \in Seq(Requests)
         /\ completions \in Seq(Answers)
         /\ kind # "WKHTTP" => io \o completions = io
<1>1. QueueTypes /\ TasksFollowKind
  BY Zenon DEF CookieIndInv
<1>2. /\ io \in Seq(IOTasks) /\ completions \in Seq(IOTasks)
      /\ wk \in Seq(Requests) /\ monsterTasks \in Seq(Requests)
      /\ completions \in Seq(Answers)
  <2>1. hook_map \subseteq hook_map
    OBVIOUS
  <2> QED
    BY <1>1, <2>1, QueuesOfMore, Zenon DEF QueueTypes
<1>3. io \o <<>> = io
  BY <1>2
<1> QED
  BY <1>1, <1>2, <1>3, Zenon DEF TasksFollowKind

(* What a read or a deletion that is asked for while the IO thread runs     *)
(* something else leaves of the invariant.                                  *)
LEMMA AskNowFacts ==
  ASSUME CookieIndInv, NEW t \in ReadTasks \cup DeleteTasks, AskSystemNow(t), kind' = kind,
         store' = store, notifications' = notifications
  PROVE  /\ \A h : hook_map \subseteq h /\ (t.op = "cache" => t.key \in h) =>
              io' \in Seq(IOTasksOf(h)) /\ wk' \in Seq(RequestsOf(h))
         /\ kind # "WKHTTP" => wk' = wk
         /\ Current'
         /\ Somewhere(io', Notices) <=> Somewhere(io, Notices)
         /\ Somewhere(io, FlushAnswers) => Somewhere(io', FlushAnswers)
         /\ Somewhere(io', Updates) => Somewhere(io, Updates) \/ (t.op = "cache" /\ t.run_callbacks)
         /\ kind = "NSHTTP" /\ t.op = "flush" => Somewhere(io', FlushAnswers)
         /\ kind # "Persistent" => \A k, v :
              ReadsKey(t, k) \/ Catching(k, wk, io \o completions, v, store) =>
                Catching(k, wk', io' \o completions, v, store)
         /\ kind = "NSHTTP" => \A k, v, z :
              Following(k, io, v, z) /\ ~ReadsKey(t, k) => Following(k, io', v, z)
         /\ kind = "NSHTTP" => \A k, v :
              ReadsKey(t, k) /\ ~t.run_callbacks /\ ~Somewhere(io, Brings(k)) =>
                Following(k, io', v, Of(k, store))
<1>1. PlainTypes /\ QueueTypes /\ TasksFollowKind /\ Current
  BY Zenon DEF CookieIndInv
<1>2. /\ io \in Seq(IOTasks) /\ wk \in Seq(Requests)
      /\ kind # "WKHTTP" => io \o completions = io
  BY CookieQueues, Zenon
<1>3. t \in Requests /\ store \in Jar
  BY <1>1, Zenon DEF Requests, PlainTypes
<1>4. CASE kind = "WKHTTP"
  <2>1. wk' = Append(wk, t) /\ io' = io
    BY <1>4, Zenon DEF AskSystemNow
  <2>2. kind # "NSHTTP" /\ kind # "Persistent"
    BY <1>4
  <2>3. \A E : Somewhere(wk', E) <=> Somewhere(wk, E) \/ t \in E
    BY <1>2, <1>3, <2>1, QueueAppend, Zenon
  <2>4. ASSUME NEW h, hook_map \subseteq h, t.op = "cache" => t.key \in h
        PROVE  io' \in Seq(IOTasksOf(h)) /\ wk' \in Seq(RequestsOf(h))
    <3>1. io \in Seq(IOTasksOf(h)) /\ wk \in Seq(RequestsOf(h))
      BY <1>1, <2>4, QueuesOfMore, Zenon DEF QueueTypes
    <3>2. t \in RequestsOf(h)
      BY <1>3, <2>4, Zenon DEF RequestsOf
    <3>3. Append(wk, t) \in Seq(RequestsOf(h))
      BY <3>1, <3>2
    <3> QED
      BY <2>1, <3>1, <3>3, Zenon
  <2>5. ASSUME NEW k, NEW v, ReadsKey(t, k) \/ Catching(k, wk, io \o completions, v, store)
        PROVE  Catching(k, wk', io' \o completions, v, store)
    <3>1. ReadsKey(t, k) => t \in Wants(k)
      BY <1>3, Zenon DEF Wants
    <3> QED
      BY <2>1, <2>3, <2>5, <3>1, Zenon DEF Catching
  <2> QED
    BY <1>4, <2>1, <2>2, <2>4, <2>5, Zenon DEF Current
<1>5. CASE kind # "WKHTTP"
  <2> DEFINE x == Reply(t, store)
  <2>1. io' = Append(io, x) /\ wk' = wk
    BY <1>5, Zenon DEF AskSystemNow
  <2>2. /\ x \in IOTasks
        /\ \A k : x \in Brings(k) <=> ReadsKey(t, k)
        /\ \A k : x \in Fills(k) <=> ReadsKey(t, k) /\ ~t.run_callbacks
        /\ \A k, v : x \in Shows(k, v) <=> Of(k, store) = v
        /\ \A s : x \in Holding(s) <=> store = s
        /\ x \notin Notices
        /\ x \in FlushAnswers <=> t.op = "flush"
        /\ x \in Updates <=> t.op = "cache" /\ t.run_callbacks
        /\ \A h : (t.op = "cache" => t.key \in h) => x \in AnswersOf(h) /\ x \in IOTasksOf(h)
    BY <1>3, AnswerBelongs
  <2> HIDE DEF x
  <2>3. /\ \A E : Somewhere(io', E) <=> Somewhere(io, E) \/ x \in E
        /\ \A E, G : (LastIn(io, E, G) \/ x \in E) /\ (x \in E => x \in G) =>
              LastIn(io', E, G)
        /\ \A N, G : (SinceIn(io, N, G) /\ x \in G) \/ x \in N => SinceIn(io', N, G)
        /\ \A E, F, G : FirstIn(io, E, F, G) /\ (x \in F => x \in G /\ ~Somewhere(io, E)) =>
              FirstIn(io', E, F, G)
    BY <1>2, <2>1, <2>2, QueueAppend
  <2>4. io' \o completions = io'
    <3>1. io' \in Seq(IOTasks)
      BY <1>2, <2>1, <2>2
    <3>2. completions = <<>>
      BY <1>1, <1>5, Zenon DEF TasksFollowKind
    <3> QED
      BY <3>1, <3>2
  <2>5. ASSUME NEW h, hook_map \subseteq h, t.op = "cache" => t.key \in h
        PROVE  io' \in Seq(IOTasksOf(h)) /\ wk' \in Seq(RequestsOf(h))
    <3>1. io \in Seq(IOTasksOf(h)) /\ wk \in Seq(RequestsOf(h))
      BY <1>1, <2>5, QueuesOfMore, Zenon DEF QueueTypes
    <3>2. x \in IOTasksOf(h)
      BY <2>2, <2>5, Zenon
    <3>3. Append(io, x) \in Seq(IOTasksOf(h))
      BY <3>1, <3>2
    <3> QED
      BY <2>1, <3>1, <3>3, Zenon
  <2>6. Current'
    BY <1>1, <2>2, <2>3, Zenon DEF Current
  <2>7. ASSUME NEW k, NEW v, ReadsKey(t, k) \/ Catching(k, wk, io \o completions, v, store)
        PROVE  Catching(k, wk', io' \o completions, v, store)
    <3>1. CASE ReadsKey(t, k)
      <4>1. x \in Brings(k) /\ x \in Shows(k, Of(k, store))
        BY <2>2, <3>1, Zenon
      <4>2. LastIn(io', Brings(k), Shows(k, Of(k, store))) /\ Somewhere(io', Brings(k))
        BY <2>3, <4>1, Zenon
      <4> QED
        BY <2>4, <4>2, Zenon DEF Catching
    <3>2. CASE ~ReadsKey(t, k)
      <4>1. x \notin Brings(k) /\ Catching(k, wk, io, v, store)
        BY <1>2, <1>5, <2>2, <2>7, <3>2, Zenon
      <4> QED
        BY <2>1, <2>3, <2>4, <4>1, Zenon DEF Catching
    <3> QED
      BY <3>1, <3>2
  <2>8. ASSUME NEW k, NEW v, NEW z, Following(k, io, v, z), ~ReadsKey(t, k)
        PROVE  Following(k, io', v, z)
    BY <2>2, <2>3, <2>8, Zenon DEF Following
  <2>9. ASSUME NEW k, NEW v, ReadsKey(t, k), ~t.run_callbacks, ~Somewhere(io, Brings(k))
        PROVE  Following(k, io', v, Of(k, store))
    <3>1. x \in Fills(k) /\ x \in Shows(k, Of(k, store))
      BY <2>2, <2>9, Zenon
    <3>2. FirstIn(io, Brings(k), Fills(k), Shows(k, Of(k, store)))
      <4>1. Fills(k) \subseteq Brings(k)
        BY Zenon DEF Fills, Brings
      <4> QED
        BY <2>9, <4>1, Zenon DEF FirstIn, Somewhere
    <3> QED
      BY <2>3, <2>9, <3>1, <3>2, Zenon DEF Following
  <2> QED
    BY <1>5, <2>1, <2>2, <2>3, <2>5, <2>6, <2>7, <2>8, <2>9, Zenon
<1> QED
  BY <1>4, <1>5

-----------------------------------------------------------------------------
(* One lemma per action.                                                   *)

(* A change of the store is announced: what is said of noticed changes      *)
(* says nothing for now.                                                    *)
LEMMA StoreChanges ==
  ASSUME CookieIndInv, kind' = kind, NEW i \in Ids, NEW v \in Values \cup {None},
         ChangeStore([store EXCEPT ![i] = v])
  PROVE  /\ store' \in Jar /\ notifications' \in Nat /\ announced' \in BOOLEAN
         /\ Current' /\ CatchUp'
         /\ (kind = "NSHTTP" => (flush_closure' => timer' \/ Somewhere(io', FlushAnswers))) => FlushUp'
<1>1. store \in Jar /\ notifications \in Nat
  BY Zenon DEF CookieIndInv, PlainTypes
<1>2. store' = [store EXCEPT ![i] = v] /\ notifications' = notifications + 1
  BY DEF ChangeStore
<1>3. announced' \in BOOLEAN
  BY Zenon DEF ChangeStore
<1>4. store' \in Jar
  BY <1>1, <1>2 DEF Jar
<1>5. notifications' \in Nat /\ notifications' # 0
  BY <1>1, <1>2
<1> QED
  BY <1>3, <1>4, <1>5, Zenon DEF Current, CatchUp, FlushUp

(* Another thread changes a cookie.                                        *)
LEMMA SystemChangeStep ==
  ASSUME CookieIndInv, kind' = kind, NEW i \in Ids, NEW v \in Values \cup {None},
         SystemChange(i, v)
  PROVE  CookieIndInv'
<1>1. /\ ChangeStore([store EXCEPT ![i] = v])
      /\ UNCHANGED <<io, wk, completions, monster, monsterTasks, hook_map, cache, seen,
                     refreshed, flush_closure, timer, flushes>>
  BY Zenon DEF SystemChange, wkVars, monsterVars, cacheVars, flushVars
<1>2. changes' \in 0 .. MaxChanges
  <2>1. changes < MaxChanges /\ changes' = changes + 1
    BY Zenon DEF SystemChange
  <2>2. changes \in 0 .. MaxChanges
    BY Zenon DEF CookieIndInv, PlainTypes
  <2> QED
    BY <2>1, <2>2
<1>3. /\ store' \in Jar /\ notifications' \in Nat /\ announced' \in BOOLEAN
      /\ Current' /\ CatchUp'
      /\ (kind = "NSHTTP" => (flush_closure' => timer' \/ Somewhere(io', FlushAnswers))) => FlushUp'
  BY <1>1, StoreChanges
<1>4. PlainTypes /\ QueueTypes /\ TasksFollowKind /\ FollowUp /\ FlushUp /\ ReadUp
  BY Zenon DEF CookieIndInv
<1>5. PlainTypes'
  BY <1>1, <1>2, <1>3, <1>4, Zenon DEF PlainTypes
<1>6. QueueTypes' /\ TasksFollowKind'
  BY <1>1, <1>4, Zenon DEF QueueTypes, TasksFollowKind
<1>7. FollowUp' /\ ReadUp'
  BY <1>1, <1>4, Zenon DEF FollowUp, ReadUp
<1>8. FlushUp'
  BY <1>1, <1>3, <1>4, Zenon DEF FlushUp
<1> QED
  BY <1>3, <1>5, <1>6, <1>7, <1>8, Zenon DEF CookieIndInv

(* A notification reaches the IO thread.                                   *)
LEMMA OnNotificationReceivedStep ==
  ASSUME CookieIndInv, kind' = kind, OnNotificationReceived
  PROVE  CookieIndInv'
<1>1. /\ io' = Append(io, Notify)
      /\ UNCHANGED <<store, announced, wk, completions, monster, monsterTasks, hook_map, cache,
                     seen, refreshed, flush_closure, timer, changes, flushes>>
  BY Zenon DEF OnNotificationReceived, wkVars, monsterVars, cacheVars, flushVars
<1>2. PlainTypes /\ QueueTypes /\ TasksFollowKind /\ FollowUp /\ FlushUp /\ ReadUp
  BY Zenon DEF CookieIndInv
<1>3. notifications' \in Nat
  <2>1. notifications > 0 /\ notifications' = notifications - 1
    BY Zenon DEF OnNotificationReceived
  <2>2. notifications \in Nat
    BY <1>2, Zenon DEF PlainTypes
  <2> QED
    BY <2>1, <2>2
<1>4. io \in Seq(IOTasks)
  BY CookieQueues, Zenon
<1>5. /\ \A E : Somewhere(io', E) <=> Somewhere(io, E) \/ Notify \in E
      /\ \A N, G : (SinceIn(io, N, G) /\ Notify \in G) \/ Notify \in N => SinceIn(io', N, G)
      /\ \A E, F, G : FirstIn(io, E, F, G) /\ (Notify \in F => Notify \in G /\ ~Somewhere(io, E)) =>
           FirstIn(io', E, F, G)
  BY <1>1, <1>4, NoticeBelongs, QueueAppend
<1>6. PlainTypes'
  BY <1>1, <1>2, <1>3, Zenon DEF PlainTypes
<1>7. QueueTypes' /\ TasksFollowKind'
  <2>1. io \in Seq(IOTasksOf(hook_map)) /\ Notify \in IOTasksOf(hook_map)
    BY <1>2, NoticeBelongs, Zenon DEF QueueTypes
  <2>2. io' \in Seq(IOTasksOf(hook_map))
    BY <1>1, <2>1
  <2> QED
    BY <1>1, <1>2, <2>2, Zenon DEF QueueTypes, TasksFollowKind
<1>8. Current' /\ CatchUp'
  BY <1>5, NoticeBelongs, Zenon DEF Current, CatchUp
<1>9. FollowUp'
  BY <1>1, <1>2, <1>5, NoticeBelongs, Zenon DEF FollowUp, Following
<1>10. FlushUp' /\ ReadUp'
  BY <1>1, <1>2, <1>5, NoticeBelongs, Zenon DEF FlushUp, ReadUp
<1> QED
  BY <1>6, <1>7, <1>8, <1>9, <1>10, Zenon DEF CookieIndInv

(* WebKit does what it was asked.                                          *)
LEMMA WebKitServesStep ==
  ASSUME CookieIndInv, kind' = kind, WebKitServes
  PROVE  CookieIndInv'
<1> DEFINE t == Head(wk)
<1>1. /\ wk # <<>> /\ wk' = Tail(wk)
      /\ UNCHANGED <<io, monster, monsterTasks, hook_map, cache, seen, refreshed, flush_closure,
                     timer, changes, flushes>>
  BY Zenon DEF WebKitServes, monsterVars, cacheVars, flushVars
<1>2. PlainTypes /\ QueueTypes /\ TasksFollowKind /\ CatchUp
  BY Zenon DEF CookieIndInv
<1>3. kind = "WKHTTP" /\ kind # "NSHTTP" /\ kind # "Persistent"
  <2>1. kind = "WKHTTP"
    BY <1>1, <1>2, Zenon DEF TasksFollowKind
  <2> QED
    BY <2>1
<1>4. /\ t \in RequestsOf(hook_map) /\ Tail(wk) \in Seq(RequestsOf(hook_map))
  <2>1. wk \in Seq(RequestsOf(hook_map))
    BY <1>2, Zenon DEF QueueTypes
  <2> QED
    BY <1>1, <2>1
<1>5. t \in Requests /\ (t.op = "cache" => t.key \in hook_map)
  BY <1>4, Zenon DEF RequestsOf
<1>6. FollowUp' /\ FlushUp' /\ ReadUp'
  BY <1>3, Zenon DEF FollowUp, FlushUp, ReadUp
<1>7. CASE t.op = "set"
  <2>1. ChangeStore([store EXCEPT ![t.id] = t.value]) /\ completions' = completions
    BY <1>7, Zenon DEF WebKitServes
  <2>2. t.id \in Ids /\ t.value \in Values \cup {None}
    <3>1. t \in WriteTasks
      BY <1>5, <1>7, CookieTaskFacts DEF Requests
    <3> QED
      BY <3>1, CookieTaskFacts, Zenon
  <2>3. /\ store' \in Jar /\ notifications' \in Nat /\ announced' \in BOOLEAN
        /\ Current' /\ CatchUp'
    BY <2>1, <2>2, StoreChanges
  <2>4. PlainTypes'
    BY <1>1, <1>2, <2>3, Zenon DEF PlainTypes
  <2>5. QueueTypes' /\ TasksFollowKind'
    BY <1>1, <1>2, <1>3, <1>4, <2>1, Zenon DEF QueueTypes, TasksFollowKind
  <2> QED
    BY <1>6, <2>3, <2>4, <2>5, Zenon DEF CookieIndInv
<1>8. CASE t.op # "set"
  <2> DEFINE x == Reply(t, store)
  <2>1. completions' = Append(completions, x) /\ UNCHANGED <<store, notifications, announced>>
    BY <1>8, Zenon DEF WebKitServes, systemVars
  <2>2. t \in ReadTasks \cup DeleteTasks /\ store \in Jar
    <3>1. t \notin WriteTasks
      BY <1>8, CookieTaskFacts, Zenon
    <3> QED
      BY <1>2, <1>5, <3>1, Zenon DEF Requests, PlainTypes
  <2>3. /\ x \in IOTasks
        /\ \A k : x \in Brings(k) <=> ReadsKey(t, k)
        /\ \A k, v : x \in Shows(k, v) <=> Of(k, store) = v
        /\ \A h : (t.op = "cache" => t.key \in h) => x \in AnswersOf(h) /\ x \in IOTasksOf(h)
    BY <2>2, AnswerBelongs
  <2> HIDE DEF x
  <2>4. PlainTypes'
    BY <1>1, <1>2, <2>1, Zenon DEF PlainTypes
  <2>5. QueueTypes' /\ TasksFollowKind'
    <3>1. x \in AnswersOf(hook_map) /\ completions \in Seq(AnswersOf(hook_map))
      BY <1>2, <1>5, <2>3, Zenon DEF QueueTypes
    <3>2. completions' \in Seq(AnswersOf(hook_map))
      BY <2>1, <3>1
    <3> QED
      BY <1>1, <1>2, <1>3, <1>4, <3>2, Zenon DEF QueueTypes, TasksFollowKind
  <2>6. Current'
    BY <1>3, Zenon DEF Current
  <2>7. CatchUp'
    <3> DEFINE q == io \o completions
    <3>1. io \in Seq(IOTasks) /\ completions \in Seq(IOTasks) /\ wk \in Seq(Requests)
      BY CookieQueues, Zenon
    <3>2. io' \o completions' = Append(q, x) /\ q \in Seq(IOTasks)
      <4>1. io \o Append(completions, x) = Append(io \o completions, x)
        BY <2>3, <3>1
      <4>2. q \in Seq(IOTasks)
        BY <3>1
      <4> QED
        BY <1>1, <2>1, <4>1, <4>2, Zenon
    <3> HIDE DEF q
    <3>3. /\ \A E : Somewhere(Append(q, x), E) <=> Somewhere(q, E) \/ x \in E
          /\ \A E, G : (LastIn(q, E, G) \/ x \in E) /\ (x \in E => x \in G) =>
                LastIn(Append(q, x), E, G)
      BY <2>3, <3>2, QueueAppend
    <3>4. \A E : Somewhere(wk, E) <=> t \in E \/ Somewhere(Tail(wk), E)
      BY <1>1, <3>1, QueueTail
    <3> SUFFICES ASSUME notifications' = 0, ~Somewhere(io', Notices), NEW k \in hook_map
                 PROVE  Catching(k, Tail(wk), Append(q, x), cache[k], store)
      BY <1>1, <2>1, <3>2, Zenon DEF CatchUp
    <3>5. Catching(k, wk, q, cache[k], store)
      BY <1>1, <1>2, <1>3, <2>1, Zenon DEF CatchUp, q
    <3>6. CASE ReadsKey(t, k)
      <4>1. x \in Brings(k) /\ x \in Shows(k, Of(k, store))
        BY <2>3, <3>6, Zenon
      <4> QED
        BY <3>3, <4>1, Zenon DEF Catching
    <3>7. CASE ~ReadsKey(t, k)
      <4>1. x \notin Brings(k) /\ t \notin Wants(k)
        BY <2>3, <3>7, Zenon DEF Wants
      <4> QED
        BY <3>3, <3>4, <3>5, <4>1, Zenon DEF Catching
    <3> QED
      BY <3>6, <3>7
  <2> QED
    BY <1>6, <2>4, <2>5, <2>6, <2>7, Zenon DEF CookieIndInv
<1> QED
  BY <1>7, <1>8

(* WebKit's answer reaches the IO thread.                                  *)
LEMMA CompletionHandlerStep ==
  ASSUME CookieIndInv, kind' = kind, CompletionHandler
  PROVE  CookieIndInv'
<1> DEFINE x == Head(completions)
<1>1. /\ completions # <<>> /\ completions' = Tail(completions) /\ io' = Append(io, x)
      /\ UNCHANGED <<store, notifications, announced, wk, monster, monsterTasks, hook_map, cache,
                     seen, refreshed, flush_closure, timer, changes, flushes>>
  BY Zenon DEF CompletionHandler, systemVars, monsterVars, cacheVars, flushVars
<1>2. PlainTypes /\ QueueTypes /\ TasksFollowKind /\ CatchUp
  BY Zenon DEF CookieIndInv
<1>3. kind = "WKHTTP" /\ kind # "NSHTTP" /\ kind # "Persistent"
  <2>1. kind = "WKHTTP"
    BY <1>1, <1>2, Zenon DEF TasksFollowKind
  <2> QED
    BY <2>1
<1>4. x \in AnswersOf(hook_map) /\ Tail(completions) \in Seq(AnswersOf(hook_map))
  <2>1. completions \in Seq(AnswersOf(hook_map))
    BY <1>2, Zenon DEF QueueTypes
  <2> QED
    BY <1>1, <2>1
<1>5. x \in IOTasksOf(hook_map) /\ x \in IOTasks
  BY <1>4, Zenon DEF IOTasksOf, AnswersOf, IOTasks
<1>6. PlainTypes'
  BY <1>1, <1>2, Zenon DEF PlainTypes
<1>7. QueueTypes' /\ TasksFollowKind'
  <2>1. io \in Seq(IOTasksOf(hook_map))
    BY <1>2, Zenon DEF QueueTypes
  <2>2. Append(io, x) \in Seq(IOTasksOf(hook_map))
    BY <1>5, <2>1
  <2> QED
    BY <1>1, <1>2, <1>3, <1>4, <2>2, Zenon DEF QueueTypes, TasksFollowKind
<1>8. Current' /\ FollowUp' /\ FlushUp' /\ ReadUp'
  BY <1>3, Zenon DEF Current, FollowUp, FlushUp, ReadUp
<1>9. CatchUp'
  <2>1. io \in Seq(IOTasks) /\ completions \in Seq(IOTasks)
    BY CookieQueues, Zenon
  <2>2. io' \o completions' = io \o completions
    <3>1. Append(io, x) \o Tail(completions) = io \o completions
      <4>0. <<>> \in Seq(IOTasks)
        BY EmptySeq
      <4>1. (<<>> \o io) \o completions = (<<>> \o Append(io, x)) \o Tail(completions)
        BY <1>1, <2>1, <4>0, QueuesInLine
      <4>2. <<>> \o io = io /\ <<>> \o Append(io, x) = Append(io, x)
        BY <1>5, <2>1
      <4> QED
        BY <4>1, <4>2, Zenon
    <3> QED
      BY <1>1, <3>1, Zenon
  <2>3. Somewhere(io, Notices) => Somewhere(io', Notices)
    BY <1>1, <1>5, <2>1, QueueAppend
  <2> QED
    BY <1>1, <1>2, <2>2, <2>3, Zenon DEF CatchUp
<1> QED
  BY <1>6, <1>7, <1>8, <1>9, Zenon DEF CookieIndInv

(* A call that changes a cookie is counted.                                *)
LEMMA MutationIsCounted ==
  ASSUME CookieIndInv, Mutation
  PROVE  changes' \in 0 .. MaxChanges
<1>1. changes < MaxChanges /\ changes' = changes + 1
  BY Zenon DEF Mutation
<1>2. changes \in 0 .. MaxChanges
  BY Zenon DEF CookieIndInv, PlainTypes
<1> QED
  BY <1>1, <1>2

(* A request that joins a queue of requests.                               *)
LEMMA RequestJoins ==
  ASSUME NEW h, NEW q \in Seq(RequestsOf(h)), NEW t \in RequestsOf(h)
  PROVE  /\ Append(q, t) \in Seq(RequestsOf(h))
         /\ \A E : Somewhere(q, E) => Somewhere(Append(q, t), E)
<1>1. Append(q, t) \in Seq(RequestsOf(h))
  OBVIOUS
<1>2. \A E : Somewhere(Append(q, t), E) <=> Somewhere(q, E) \/ t \in E
  BY QueueAppend
<1> QED
  BY <1>1, <1>2, Zenon

(* Writing and deleting are requests whatever keys are observed.           *)
LEMMA WritesAreRequests ==
  /\ \A h : \A i \in Ids, v \in Values \cup {None} : Write(i, v) \in RequestsOf(h)
  /\ \A h : \A i \in Ids, v \in Values : Delete(i, v) \in RequestsOf(h)
<1>1. \A i, v : Write(i, v).op # "cache" /\ Delete(i, v).op # "cache"
  BY DEF Write, Delete
<1>2. /\ \A i \in Ids, v \in Values \cup {None} : Write(i, v) \in Requests
      /\ \A i \in Ids, v \in Values : Delete(i, v) \in Requests
  BY CookieTaskFacts, Zenon DEF Requests
<1> QED
  BY <1>1, <1>2, Zenon DEF RequestsOf

(* A cookie is set.                                                        *)
LEMMA SetCookieStep ==
  ASSUME CookieIndInv, kind' = kind, NEW i \in Ids, NEW v \in Values, SetCookie(i, v)
  PROVE  CookieIndInv'
<1>1. UNCHANGED <<io, completions, monster, hook_map, cache, seen, refreshed, flush_closure,
                  timer, flushes>>
  BY Zenon DEF SetCookie, cacheVars, flushVars
<1>2. changes' \in 0 .. MaxChanges
  BY MutationIsCounted, Zenon DEF SetCookie
<1>3. PlainTypes /\ QueueTypes /\ TasksFollowKind /\ Current /\ CatchUp /\ FollowUp /\ FlushUp /\ ReadUp
  BY Zenon DEF CookieIndInv
<1>4. Write(i, v) \in RequestsOf(hook_map) /\ v \in Values \cup {None}
  BY WritesAreRequests, Zenon
<1>5. CASE kind = "NSHTTP"
  <2>1. /\ ChangeStore([store EXCEPT ![i] = v]) /\ UNCHANGED <<wk, monsterTasks>>
    BY <1>5 DEF SetCookie
  <2>2. /\ store' \in Jar /\ notifications' \in Nat /\ announced' \in BOOLEAN
        /\ Current' /\ CatchUp'
        /\ (kind = "NSHTTP" => (flush_closure' => timer' \/ Somewhere(io', FlushAnswers))) => FlushUp'
    BY <1>4, <2>1, StoreChanges
  <2>3. PlainTypes'
    BY <1>1, <1>2, <1>3, <2>2, Zenon DEF PlainTypes
  <2>4. QueueTypes' /\ TasksFollowKind'
    BY <1>1, <1>3, <2>1, Zenon DEF QueueTypes, TasksFollowKind
  <2>5. FollowUp' /\ ReadUp'
    BY <1>1, <1>3, <2>1, Zenon DEF FollowUp, ReadUp
  <2>6. FlushUp'
    BY <1>1, <1>3, <2>2, Zenon DEF FlushUp
  <2> QED
    BY <2>2, <2>3, <2>4, <2>5, <2>6, Zenon DEF CookieIndInv
<1>6. CASE kind = "WKHTTP"
  <2>1. wk' = Append(wk, Write(i, v)) /\ UNCHANGED <<store, notifications, announced, monsterTasks>>
    BY <1>6 DEF SetCookie, systemVars
  <2>2. kind # "NSHTTP" /\ kind # "Persistent"
    BY <1>6
  <2>3. wk' \in Seq(RequestsOf(hook_map)) /\ \A E : Somewhere(wk, E) => Somewhere(wk', E)
    BY <1>3, <1>4, <2>1, RequestJoins, Zenon DEF QueueTypes
  <2>4. PlainTypes'
    BY <1>1, <1>2, <1>3, <2>1, Zenon DEF PlainTypes
  <2>5. QueueTypes' /\ TasksFollowKind'
    BY <1>1, <1>3, <1>6, <2>1, <2>3, Zenon DEF QueueTypes, TasksFollowKind
  <2>6. Current' /\ FollowUp' /\ FlushUp' /\ ReadUp'
    BY <2>2, Zenon DEF Current, FollowUp, FlushUp, ReadUp
  <2>7. CatchUp'
    BY <1>1, <1>3, <2>1, <2>3, Zenon DEF CatchUp, Catching
  <2> QED
    BY <2>4, <2>5, <2>6, <2>7, Zenon DEF CookieIndInv
<1>7. CASE kind = "Persistent"
  <2>1. /\ monsterTasks' = Append(monsterTasks, Write(i, v))
        /\ UNCHANGED <<store, notifications, announced, wk>>
    BY <1>7 DEF SetCookie, systemVars
  <2>2. kind # "NSHTTP" /\ kind # "WKHTTP"
    BY <1>7
  <2>3. /\ monsterTasks' \in Seq(RequestsOf(hook_map))
        /\ \A E : Somewhere(monsterTasks, E) => Somewhere(monsterTasks', E)
    BY <1>3, <1>4, <2>1, RequestJoins, Zenon DEF QueueTypes
  <2>4. PlainTypes'
    BY <1>1, <1>2, <1>3, <2>1, Zenon DEF PlainTypes
  <2>5. QueueTypes' /\ TasksFollowKind'
    BY <1>1, <1>3, <1>7, <2>1, <2>3, Zenon DEF QueueTypes, TasksFollowKind
  <2>6. Current' /\ CatchUp' /\ FollowUp' /\ FlushUp'
    BY <1>7, <2>2, Zenon DEF Current, CatchUp, FollowUp, FlushUp
  <2>7. ReadUp'
    BY <1>1, <1>3, <2>3, Zenon DEF ReadUp
  <2> QED
    BY <2>4, <2>5, <2>6, <2>7, Zenon DEF CookieIndInv
<1> QED
  BY <1>3, <1>5, <1>6, <1>7 DEF PlainTypes

(* A read or a deletion is asked for that says nothing of a key.            *)
LEMMA AskNowStep ==
  ASSUME CookieIndInv, kind' = kind, NEW t \in ReadTasks \cup DeleteTasks, t.op # "cache",
         AskSystemNow(t), PlainTypes',
         UNCHANGED <<store, notifications, announced, completions, monster, monsterTasks, hook_map,
                     cache, seen, refreshed, flush_closure>>,
         kind = "NSHTTP" => (timer => timer' \/ t.op = "flush")
  PROVE  CookieIndInv'
<1>1. QueueTypes /\ TasksFollowKind /\ CatchUp /\ FollowUp /\ FlushUp /\ ReadUp
  BY Zenon DEF CookieIndInv
<1>2. /\ \A h : hook_map \subseteq h /\ (t.op = "cache" => t.key \in h) =>
           io' \in Seq(IOTasksOf(h)) /\ wk' \in Seq(RequestsOf(h))
      /\ kind # "WKHTTP" => wk' = wk
      /\ Current'
      /\ Somewhere(io', Notices) <=> Somewhere(io, Notices)
      /\ Somewhere(io, FlushAnswers) => Somewhere(io', FlushAnswers)
      /\ Somewhere(io', Updates) => Somewhere(io, Updates) \/ (t.op = "cache" /\ t.run_callbacks)
      /\ kind = "NSHTTP" /\ t.op = "flush" => Somewhere(io', FlushAnswers)
      /\ kind # "Persistent" => \A k, v :
           ReadsKey(t, k) \/ Catching(k, wk, io \o completions, v, store) =>
             Catching(k, wk', io' \o completions, v, store)
      /\ kind = "NSHTTP" => \A k, v, z :
           Following(k, io, v, z) /\ ~ReadsKey(t, k) => Following(k, io', v, z)
  BY AskNowFacts
<1>3. \A k : ~ReadsKey(t, k)
  BY Zenon DEF ReadsKey
<1>4. QueueTypes' /\ TasksFollowKind'
  <2>1. io' \in Seq(IOTasksOf(hook_map)) /\ wk' \in Seq(RequestsOf(hook_map))
    BY <1>2, Zenon
  <2> QED
    BY <1>1, <1>2, <2>1, Zenon DEF QueueTypes, TasksFollowKind
<1>5. CatchUp'
  BY <1>1, <1>2, Zenon DEF CatchUp
<1>6. FollowUp'
  BY <1>1, <1>2, <1>3, Zenon DEF FollowUp
<1>7. FlushUp' /\ ReadUp'
  BY <1>1, <1>2, Zenon DEF FlushUp, ReadUp
<1> QED
  BY <1>2, <1>4, <1>5, <1>6, <1>7, Zenon DEF CookieIndInv

(* A cookie is to be deleted.                                              *)
LEMMA DeleteCanonicalCookieStep ==
  ASSUME CookieIndInv, kind' = kind, NEW i \in Ids, NEW v \in Values,
         DeleteCanonicalCookieAsync(i, v)
  PROVE  CookieIndInv'
<1>1. UNCHANGED <<store, notifications, announced, completions, monster, hook_map, cache, seen,
                  refreshed, flush_closure, timer, flushes>>
  BY Zenon DEF DeleteCanonicalCookieAsync, systemVars, cacheVars, flushVars
<1>2. changes' \in 0 .. MaxChanges
  BY MutationIsCounted, Zenon DEF DeleteCanonicalCookieAsync
<1>3. PlainTypes /\ QueueTypes /\ TasksFollowKind /\ ReadUp
  BY Zenon DEF CookieIndInv
<1>4. PlainTypes'
  BY <1>1, <1>2, <1>3, Zenon DEF PlainTypes
<1>5. CASE kind = "Persistent"
  <2>1. monsterTasks' = Append(monsterTasks, Delete(i, v)) /\ UNCHANGED <<io, wk>>
    BY <1>5, Zenon DEF DeleteCanonicalCookieAsync
  <2>2. kind # "NSHTTP" /\ kind # "WKHTTP"
    BY <1>5
  <2>3. /\ monsterTasks' \in Seq(RequestsOf(hook_map))
        /\ \A E : Somewhere(monsterTasks, E) => Somewhere(monsterTasks', E)
    <3>1. Delete(i, v) \in RequestsOf(hook_map)
      BY WritesAreRequests, Zenon
    <3> QED
      BY <1>3, <2>1, <3>1, RequestJoins, Zenon DEF QueueTypes
  <2>4. QueueTypes' /\ TasksFollowKind'
    BY <1>1, <1>3, <1>5, <2>1, <2>3, Zenon DEF QueueTypes, TasksFollowKind
  <2>5. Current' /\ CatchUp' /\ FollowUp' /\ FlushUp'
    BY <1>5, <2>2, Zenon DEF Current, CatchUp, FollowUp, FlushUp
  <2>6. ReadUp'
    BY <1>1, <1>3, <2>1, <2>3, Zenon DEF ReadUp
  <2> QED
    BY <1>4, <2>4, <2>5, <2>6, Zenon DEF CookieIndInv
<1>6. CASE kind # "Persistent"
  <2>1. AskSystemNow(Delete(i, v)) /\ monsterTasks' = monsterTasks
    BY <1>6, Zenon DEF DeleteCanonicalCookieAsync
  <2>2. Delete(i, v) \in ReadTasks \cup DeleteTasks /\ Delete(i, v).op = "delete"
    BY CookieTaskFacts, Zenon
  <2>3. Delete(i, v).op # "cache"
    BY <2>2
  <2> QED
    BY <1>1, <1>4, <2>1, <2>2, <2>3, AskNowStep
<1> QED
  BY <1>5, <1>6

(* The application goes to the background, or the delayed flush is due.     *)
LEMMA FlushStep ==
  ASSUME CookieIndInv, kind' = kind, FlushStore \/ FlushTimer
  PROVE  CookieIndInv'
<1> DEFINE t == Read("flush", Ids, FALSE)
<1>1. /\ AskSystemNow(t)
      /\ UNCHANGED <<store, notifications, announced, completions, monster, monsterTasks, hook_map,
                     cache, seen, refreshed, flush_closure, changes>>
  BY Zenon DEF FlushStore, FlushTimer, systemVars, monsterVars, cacheVars, flushVars
<1>2. t \in ReadTasks \cup DeleteTasks /\ t.op = "flush"
  BY CookieTaskFacts, Zenon
<1>3. t.op # "cache"
  BY <1>2
<1>4. PlainTypes
  BY Zenon DEF CookieIndInv
<1>5. flushes' \in 0 .. MaxFlushes
  <2>1. flushes' = flushes \/ (flushes < MaxFlushes /\ flushes' = flushes + 1)
    BY Zenon DEF FlushStore, FlushTimer
  <2>2. flushes \in 0 .. MaxFlushes
    BY <1>4, Zenon DEF PlainTypes
  <2> QED
    BY <2>1, <2>2
<1>6. timer' \in BOOLEAN /\ (timer' => flush_closure)
  <2>1. timer \in BOOLEAN /\ (timer => flush_closure)
    BY <1>4, Zenon DEF PlainTypes
  <2>2. CASE timer' = timer
    BY <2>1, <2>2, Zenon
  <2>3. CASE timer' = FALSE
    <3>1. timer' \in BOOLEAN /\ ~timer'
      BY <2>3, Zenon
    <3> QED
      BY <3>1, Zenon
  <2> QED
    BY <2>2, <2>3, Zenon DEF FlushStore, FlushTimer, flushVars
<1>7. PlainTypes'
  BY <1>1, <1>4, <1>5, <1>6, Zenon DEF PlainTypes
<1> HIDE DEF t
<1> QED
  BY <1>1, <1>2, <1>3, <1>7, AskNowStep

(* A key is observed.                                                      *)
LEMMA AddCallbackForCookieStep ==
  ASSUME CookieIndInv, kind' = kind, NEW k \in Keys, AddCallbackForCookie(k)
  PROVE  CookieIndInv'
<1> DEFINE t == Read("cache", k, FALSE)
           V == Values \cup {None}
<1>1. /\ k \notin hook_map /\ hook_map' = hook_map \cup {k} /\ AskSystemNow(t)
      /\ seen' = [seen EXCEPT ![k] = Of(k, Tracked)]
      /\ UNCHANGED <<store, notifications, announced, completions, monster, monsterTasks, cache,
                     refreshed, flush_closure, timer, changes, flushes>>
  BY Zenon DEF AddCallbackForCookie, systemVars, monsterVars, flushVars
<1>2. PlainTypes /\ QueueTypes /\ TasksFollowKind /\ CatchUp /\ FollowUp /\ FlushUp /\ ReadUp
  BY Zenon DEF CookieIndInv
<1>3. t \in ReadTasks \cup DeleteTasks /\ t.op = "cache" /\ t.key = k /\ ~t.run_callbacks
  <2>1. "cache" \in {"cache", "flush"} /\ k \in Keys \cup {Ids} /\ FALSE \in BOOLEAN
    OBVIOUS
  <2>2. t \in ReadTasks
    BY <2>1, CookieTaskFacts, Zenon
  <2>3. t.op = "cache" /\ t.key = k /\ ~t.run_callbacks
    BY DEF Read
  <2> QED
    BY <2>2, <2>3, Zenon
<1>4. ~t.run_callbacks /\ \A j : ReadsKey(t, j) <=> j = k
  BY <1>3, Zenon DEF ReadsKey
<1> HIDE DEF t
<1>5. /\ \A h : hook_map \subseteq h /\ (t.op = "cache" => t.key \in h) =>
           io' \in Seq(IOTasksOf(h)) /\ wk' \in Seq(RequestsOf(h))
      /\ kind # "WKHTTP" => wk' = wk
      /\ Current'
      /\ Somewhere(io', Notices) <=> Somewhere(io, Notices)
      /\ Somewhere(io, FlushAnswers) => Somewhere(io', FlushAnswers)
      /\ Somewhere(io', Updates) => Somewhere(io, Updates) \/ (t.op = "cache" /\ t.run_callbacks)
      /\ kind # "Persistent" => \A j, v :
           ReadsKey(t, j) \/ Catching(j, wk, io \o completions, v, store) =>
             Catching(j, wk', io' \o completions, v, store)
      /\ kind = "NSHTTP" => \A j, v, z :
           Following(j, io, v, z) /\ ~ReadsKey(t, j) => Following(j, io', v, z)
      /\ kind = "NSHTTP" => \A j, v :
           ReadsKey(t, j) /\ ~t.run_callbacks /\ ~Somewhere(io, Brings(j)) =>
             Following(j, io', v, Of(j, store))
  BY <1>1, <1>3, AskNowFacts
<1>6. hook_map' \subseteq Keys /\ hook_map \subseteq hook_map' /\ k \in hook_map'
      /\ \A j \in hook_map' : j = k \/ j \in hook_map
  BY <1>1, <1>2, Zenon DEF PlainTypes
<1>7. /\ DOMAIN seen' = Keys /\ seen'[k] = Of(k, Tracked)
      /\ \A j \in Keys : j # k => seen'[j] = seen[j]
  <2>1. DOMAIN seen = Keys
    BY <1>2, Zenon DEF PlainTypes
  <2> QED
    BY <1>1, <2>1
<1>8. Of(k, Tracked) \in [k -> V]
  <2>1. Tracked \in Jar
    BY <1>2, Zenon DEF PlainTypes, Tracked
  <2>2. k \subseteq Ids
    OBVIOUS
  <2> QED
    BY <2>1, <2>2 DEF Of, Jar
<1>9. PlainTypes'
  <2>1. \A j \in Keys : seen'[j] \in [j -> V]
    BY <1>2, <1>7, <1>8, Zenon DEF PlainTypes
  <2>2. refreshed' \subseteq hook_map'
    BY <1>1, <1>2, <1>6, Zenon DEF PlainTypes
  <2> QED
    BY <1>1, <1>2, <1>6, <1>7, <2>1, <2>2, Zenon DEF PlainTypes
<1>10. QueueTypes' /\ TasksFollowKind'
  <2>1. io' \in Seq(IOTasksOf(hook_map')) /\ wk' \in Seq(RequestsOf(hook_map'))
    BY <1>3, <1>5, <1>6, Zenon
  <2>2. completions \in Seq(AnswersOf(hook_map')) /\ monsterTasks \in Seq(RequestsOf(hook_map'))
    BY <1>2, <1>6, QueuesOfMore, Zenon DEF QueueTypes
  <2> QED
    BY <1>1, <1>2, <1>5, <2>1, <2>2, Zenon DEF QueueTypes, TasksFollowKind
<1>11. CatchUp'
  BY <1>1, <1>2, <1>4, <1>5, <1>6, Zenon DEF CatchUp
<1>12. FollowUp'
  <2> SUFFICES ASSUME kind = "NSHTTP", NEW j \in hook_map'
               PROVE  Following(j, io', cache[j], seen'[j])
    BY <1>1, Zenon DEF FollowUp
  <2>1. CASE j = k
    <3>1. ~Somewhere(io, Brings(k))
      <4> SUFFICES ASSUME NEW n \in 1 .. Len(io), io[n] \in Brings(k) PROVE FALSE
        BY Zenon DEF Somewhere
      <4>1. io[n] \in IOTasksOf(hook_map)
        <5>1. io \in Seq(IOTasksOf(hook_map))
          BY <1>2, Zenon DEF QueueTypes
        <5> QED
          BY <5>1
      <4>2. io[n].task.op = "cache" /\ io[n].task.key = k
        BY Zenon DEF Brings, ReadsKey
      <4>3. io[n] # Notify
        <5>1. Notify \notin Brings(k)
          BY NoticeBelongs, Zenon
        <5> QED
          BY <5>1, Zenon
      <4> QED
        BY <1>1, <4>1, <4>2, <4>3, Zenon DEF IOTasksOf, AnswersOf
    <3>2. Tracked = store
      <4>1. kind # "Persistent"
        OBVIOUS
      <4> QED
        BY <4>1, Zenon DEF Tracked
    <3>3. Following(k, io', cache[k], Of(k, store))
      BY <1>4, <1>5, <3>1, Zenon
    <3> QED
      BY <1>7, <2>1, <3>2, <3>3, Zenon
  <2>2. CASE j # k
    <3>1. j \in hook_map /\ j \in Keys
      BY <1>6, <2>2, Zenon
    <3>2. Following(j, io, cache[j], seen[j])
      BY <1>2, <3>1, Zenon DEF FollowUp
    <3> QED
      BY <1>4, <1>5, <1>7, <2>2, <3>1, <3>2, Zenon
  <2> QED
    BY <2>1, <2>2
<1>13. FlushUp' /\ ReadUp'
  BY <1>1, <1>2, <1>4, <1>5, Zenon DEF FlushUp, ReadUp
<1> QED
  BY <1>5, <1>9, <1>10, <1>11, <1>12, <1>13, Zenon DEF CookieIndInv

(* The first task of the IO thread, and what is left when it has run.       *)
LEMMA FirstTask ==
  ASSUME CookieIndInv, io # <<>>
  PROVE  /\ Head(io) \in IOTasksOf(hook_map) /\ Head(io) \in IOTasks
         /\ Tail(io) \in Seq(IOTasksOf(hook_map)) /\ Tail(io) \in Seq(IOTasks)
         /\ Head(io).task.op # "notify" => Head(io) \in AnswersOf(hook_map) /\ Head(io) \in Answers
         /\ Head(io \o completions) = Head(io) /\ Tail(io \o completions) = Tail(io) \o completions
         /\ io \o completions # <<>> /\ io \o completions \in Seq(IOTasks)
<1>1. io \in Seq(IOTasksOf(hook_map)) /\ io \in Seq(IOTasks) /\ completions \in Seq(IOTasks)
  BY CookieQueues, Zenon DEF CookieIndInv, QueueTypes
<1>2. /\ Head(io) \in IOTasksOf(hook_map) /\ Tail(io) \in Seq(IOTasksOf(hook_map))
      /\ Head(io) \in IOTasks /\ Tail(io) \in Seq(IOTasks)
  BY <1>1
<1>3. Head(io).task.op # "notify" => Head(io) \in AnswersOf(hook_map) /\ Head(io) \in Answers
  BY <1>2, AnswerFacts, Zenon DEF IOTasksOf, AnswersOf
<1>4. Head(io \o completions) = Head(io) /\ Tail(io \o completions) = Tail(io) \o completions
  BY <1>1
<1>5. io \o completions # <<>> /\ io \o completions \in Seq(IOTasks)
  BY <1>1
<1> QED
  BY <1>2, <1>3, <1>4, <1>5

(* A notice is handled: the observed keys are read and a flush is due.      *)
LEMMA OnSystemCookiesChangedStep ==
  ASSUME CookieIndInv, kind' = kind, OnSystemCookiesChanged
  PROVE  CookieIndInv'
<1> DEFINE h == Head(io)
           r == ReadsOfChange
<1>1. /\ io # <<>> /\ h.task.op = "notify"
      /\ UNCHANGED <<store, notifications, announced, completions, monster, monsterTasks, hook_map,
                     cache, seen, refreshed, changes, flushes>>
  BY Zenon DEF OnSystemCookiesChanged, Runs, systemVars, monsterVars, cacheVars
<1>2. PlainTypes /\ QueueTypes /\ TasksFollowKind /\ Current /\ CatchUp /\ FollowUp /\ FlushUp /\ ReadUp
  BY Zenon DEF CookieIndInv
<1>3. h \in IOTasks /\ Tail(io) \in Seq(IOTasksOf(hook_map)) /\ Tail(io) \in Seq(IOTasks)
  BY <1>1, FirstTask, Zenon
<1>4. /\ io \in Seq(IOTasks) /\ wk \in Seq(Requests)
      /\ kind # "WKHTTP" => io \o completions = io
  BY CookieQueues, Zenon
<1>5. CASE kind = "Persistent"
  <2>1. io' = Tail(io) /\ UNCHANGED <<wk, flush_closure, timer>>
    BY <1>5, Zenon DEF OnSystemCookiesChanged, flushVars
  <2>2. kind # "NSHTTP"
    BY <1>5
  <2>3. PlainTypes' /\ QueueTypes' /\ TasksFollowKind'
    BY <1>1, <1>2, <1>3, <2>1, Zenon DEF PlainTypes, QueueTypes, TasksFollowKind
  <2>4. Current' /\ CatchUp' /\ FollowUp' /\ FlushUp'
    BY <1>5, <2>2, Zenon DEF Current, CatchUp, FollowUp, FlushUp
  <2>5. ReadUp'
    <3>1. Somewhere(Tail(io), Updates) => Somewhere(io, Updates)
      BY <1>1, <1>4, QueueTail
    <3> QED
      BY <1>1, <1>2, <2>1, <3>1, Zenon DEF ReadUp
  <2> QED
    BY <2>3, <2>4, <2>5, Zenon DEF CookieIndInv
<1>6. /\ r \in Seq(ReadTasks) /\ r \in Seq(RequestsOf(hook_map))
      /\ Len(r) \in Nat /\ DOMAIN r = 1 .. Len(r)
      /\ \A n \in 1 .. Len(r) : /\ r[n] \in ReadTasks /\ r[n].op = "cache"
                                 /\ r[n].key \in hook_map /\ r[n].run_callbacks
      /\ \A k \in hook_map : Somewhere(r, Wants(k))
  BY <1>2, ReadsOfChangeFacts, Zenon DEF PlainTypes
<1> HIDE DEF r
<1>7. ASSUME kind # "Persistent"
      PROVE  /\ AskSystem(r) /\ flush_closure' \in BOOLEAN /\ timer' \in BOOLEAN /\ flush_closure'
             /\ timer' \/ (flush_closure /\ ~timer)
  <2>1. /\ AskSystem(r) /\ flush_closure' = (flush_closure \/ SchedulesFlush)
        /\ timer' = (timer \/ SchedulesFlush)
    BY <1>7, Zenon DEF OnSystemCookiesChanged, r
  <2>2. flush_closure \/ SchedulesFlush
    BY Zenon DEF SchedulesFlush
  <2>3. flush_closure' \in BOOLEAN /\ flush_closure'
    BY <2>1, <2>2, Zenon
  <2>4. timer' \in BOOLEAN /\ (timer' \/ (flush_closure /\ ~timer))
    BY <2>1, Zenon DEF SchedulesFlush
  <2> QED
    BY <2>1, <2>3, <2>4, Zenon
<1>8. \A k : h \notin Brings(k) /\ h \notin Fills(k) /\ h \notin FlushAnswers
  <2>1. h.task.op # "cache" /\ h.task.op # "flush"
    BY <1>1
  <2> QED
    BY <2>1, Zenon DEF Brings, Fills, FlushAnswers, ReadsKey
<1>9. /\ \A E : Somewhere(io, E) <=> h \in E \/ Somewhere(Tail(io), E)
      /\ \A N, G : SinceIn(io, N, G) => SinceIn(Tail(io), N, G)
      /\ \A E, F, G : FirstIn(io, E, F, G) => FirstIn(Tail(io), E, F, G)
  BY <1>1, <1>4, QueueTail
<1>10. CASE kind = "WKHTTP"
  <2>0. kind # "Persistent" /\ kind # "NSHTTP"
    BY <1>10
  <2>1. wk' = wk \o r /\ io' = Tail(io)
    BY <1>7, <1>10, <2>0, Zenon DEF AskSystem
  <2>2. /\ wk' \in Seq(RequestsOf(hook_map))
        /\ \A k \in hook_map : Somewhere(wk', Wants(k))
    <3>1. wk \in Seq(RequestsOf(hook_map))
      BY <1>2, Zenon DEF QueueTypes
    <3>2. wk \o r \in Seq(RequestsOf(hook_map))
      BY <1>6, <3>1
    <3>3. \A E : Somewhere(wk \o r, E) <=> Somewhere(wk, E) \/ Somewhere(r, E)
      BY <1>6, <3>1, QueueConcat
    <3> QED
      BY <1>6, <2>1, <3>2, <3>3, Zenon
  <2>3. PlainTypes'
    BY <1>1, <1>2, <1>7, <2>0, Zenon DEF PlainTypes
  <2>4. QueueTypes' /\ TasksFollowKind'
    BY <1>1, <1>2, <1>3, <1>10, <2>1, <2>2, Zenon DEF QueueTypes, TasksFollowKind
  <2>5. Current' /\ FollowUp' /\ FlushUp' /\ ReadUp'
    BY <2>0, Zenon DEF Current, FollowUp, FlushUp, ReadUp
  <2>6. CatchUp'
    BY <1>1, <2>2, Zenon DEF CatchUp, Catching
  <2> QED
    BY <2>3, <2>4, <2>5, <2>6, Zenon DEF CookieIndInv
<1>11. CASE kind = "NSHTTP"
  <2> DEFINE q == [n \in DOMAIN r |-> Reply(r[n], store)]
  <2>0. kind # "Persistent" /\ kind # "WKHTTP"
    BY <1>11
  <2>1. io' = Tail(io) \o q /\ wk' = wk
    BY <1>7, <2>0, Zenon DEF AskSystem
  <2>2. ASSUME NEW n \in 1 .. Len(r)
        PROVE  /\ q[n] = Reply(r[n], store) /\ q[n] \in IOTasks /\ q[n] \in IOTasksOf(hook_map)
               /\ \A k : q[n] \in Brings(k) <=> ReadsKey(r[n], k)
               /\ \A k : q[n] \notin Fills(k) /\ q[n] \in Shows(k, Of(k, store))
               /\ q[n] \in Holding(store) /\ q[n] \notin Notices
    <3>1. q[n] = Reply(r[n], store)
      BY <1>6, Zenon
    <3>2. r[n] \in ReadTasks \cup DeleteTasks /\ store \in Jar
      BY <1>2, <1>6, Zenon DEF PlainTypes
    <3>3. LET x == Reply(r[n], store) IN
          /\ x \in IOTasks
          /\ \A k : x \in Brings(k) <=> ReadsKey(r[n], k)
          /\ \A k : x \in Fills(k) <=> ReadsKey(r[n], k) /\ ~r[n].run_callbacks
          /\ \A k, v : x \in Shows(k, v) <=> Of(k, store) = v
          /\ \A s : x \in Holding(s) <=> store = s
          /\ x \notin Notices
          /\ \A g : (r[n].op = "cache" => r[n].key \in g) => x \in AnswersOf(g) /\ x \in IOTasksOf(g)
      BY <3>2, AnswerBelongs
    <3> QED
      BY <1>6, <3>1, <3>3, Zenon
  <2>3. Len(q) = Len(r) /\ q \in Seq(IOTasks) /\ q \in Seq(IOTasksOf(hook_map))
    <3>1. q = [n \in 1 .. Len(r) |-> q[n]]
      BY <1>6
    <3>2. \A n \in 1 .. Len(r) : q[n] \in IOTasks /\ q[n] \in IOTasksOf(hook_map)
      BY <2>2, Zenon
    <3> HIDE DEF q
    <3>3. q \in [1 .. Len(r) -> IOTasks] /\ q \in [1 .. Len(r) -> IOTasksOf(hook_map)]
      BY <3>1, <3>2
    <3>4. q \in Seq(IOTasks) /\ q \in Seq(IOTasksOf(hook_map))
      BY <1>6, <3>3, SeqDef
    <3> QED
      BY <1>6, <3>1, <3>4
  <2> HIDE DEF q
  <2>4. /\ \A k \in hook_map : Somewhere(q, Brings(k))
        /\ \A k : ~Somewhere(q, Fills(k)) /\ \A n \in 1 .. Len(q) : q[n] \in Shows(k, Of(k, store))
        /\ ~Somewhere(q, Notices) /\ \A n \in 1 .. Len(q) : q[n] \in Holding(store)
    <3>1. ASSUME NEW k \in hook_map PROVE Somewhere(q, Brings(k))
      <4>1. PICK n \in 1 .. Len(r) : r[n] \in Wants(k)
        BY <1>6, Zenon DEF Somewhere
      <4>2. ReadsKey(r[n], k)
        BY <4>1, Zenon DEF Wants
      <4> QED
        BY <2>2, <2>3, <4>2, Zenon DEF Somewhere
    <3> QED
      BY <2>2, <2>3, <3>1, Zenon DEF Somewhere
  <2>5. /\ \A E : Somewhere(io', E) <=> Somewhere(Tail(io), E) \/ Somewhere(q, E)
        /\ \A E, G : (LastIn(Tail(io), E, G) \/ Somewhere(q, E)) /\ (\A n \in 1 .. Len(q) : q[n] \in G) =>
             LastIn(io', E, G)
        /\ \A N, G : SinceIn(Tail(io), N, G) /\ (\A n \in 1 .. Len(q) : q[n] \in G) =>
             SinceIn(io', N, G)
        /\ \A E, F, G : FirstIn(Tail(io), E, F, G) /\ ~Somewhere(q, F) => FirstIn(io', E, F, G)
    BY <1>3, <2>1, <2>3, QueueConcat
  <2>6. io' \in Seq(IOTasksOf(hook_map)) /\ io' \in Seq(IOTasks)
    BY <1>3, <2>1, <2>3
  <2>7. io' \o completions' = io'
    <3>1. completions' = <<>>
      BY <1>1, <1>2, <2>0, Zenon DEF TasksFollowKind
    <3> QED
      BY <2>6, <3>1
  <2>8. PlainTypes'
    BY <1>1, <1>2, <1>7, <2>0, Zenon DEF PlainTypes
  <2>9. QueueTypes' /\ TasksFollowKind'
    BY <1>1, <1>2, <2>1, <2>6, Zenon DEF QueueTypes, TasksFollowKind
  <2>10. Current'
    <3> SUFFICES ASSUME notifications' = 0 PROVE SinceIn(io', Notices, Holding(store))
      BY <1>1, Zenon DEF Current
    <3>1. SinceIn(io, Notices, Holding(store))
      BY <1>1, <1>2, <1>11, Zenon DEF Current
    <3> QED
      BY <1>9, <2>4, <2>5, <3>1, Zenon
  <2>11. CatchUp'
    <3> SUFFICES ASSUME NEW k \in hook_map
                 PROVE  Catching(k, wk', io', cache[k], store)
      BY <1>1, <2>7, Zenon DEF CatchUp
    <3>1. LastIn(io', Brings(k), Shows(k, Of(k, store))) /\ Somewhere(io', Brings(k))
      BY <2>4, <2>5, Zenon
    <3> QED
      BY <3>1, Zenon DEF Catching
  <2>12. FollowUp'
    <3> SUFFICES ASSUME NEW k \in hook_map
                 PROVE  Following(k, io', cache[k], seen[k])
      BY <1>1, Zenon DEF FollowUp
    <3>1. Following(k, io, cache[k], seen[k])
      BY <1>2, <1>11, Zenon DEF FollowUp
    <3> QED
      BY <1>8, <1>9, <2>4, <2>5, <3>1, Zenon DEF Following
  <2>13. FlushUp'
    <3>1. timer' \/ Somewhere(io', FlushAnswers)
      BY <1>2, <1>7, <1>8, <1>9, <1>11, <2>0, <2>5, Zenon DEF FlushUp
    <3> QED
      BY <3>1, Zenon DEF FlushUp
  <2>14. ReadUp'
    BY <2>0, Zenon DEF ReadUp
  <2> QED
    BY <2>8, <2>9, <2>10, <2>11, <2>12, <2>13, <2>14, Zenon DEF CookieIndInv
<1> QED
  BY <1>2, <1>5, <1>10, <1>11 DEF PlainTypes

(* What is left when the first task of the IO thread has run.               *)
LEMMA TaskTaken ==
  ASSUME CookieIndInv, io # <<>>, Head(io).task.op # "notify"
  PROVE  /\ Somewhere(Tail(io), Notices) <=> Somewhere(io, Notices)
         /\ Somewhere(Tail(io), Updates) => Somewhere(io, Updates)
         /\ Head(io).task.op # "flush" =>
              (Somewhere(Tail(io), FlushAnswers) <=> Somewhere(io, FlushAnswers))
         /\ \A N, G : SinceIn(io, N, G) => SinceIn(Tail(io), N, G)
         /\ \A s : SinceIn(io, Notices, Holding(s)) /\ ~Somewhere(io, Notices) =>
              Head(io).cookies = s
         /\ \A k, w, v, s :
              ~ReadsKey(Head(io).task, k) /\ Catching(k, w, io \o completions, v, s) =>
                Catching(k, w, Tail(io) \o completions, v, s)
         /\ \A k, v, z :
              ~ReadsKey(Head(io).task, k) /\ Following(k, io, v, z) => Following(k, Tail(io), v, z)
<1> DEFINE h == Head(io)
           q == io \o completions
<1>1. /\ io \in Seq(IOTasks) /\ h \in IOTasks /\ q \in Seq(IOTasks) /\ q # <<>>
      /\ Head(q) = h /\ Tail(q) = Tail(io) \o completions
  BY CookieQueues, FirstTask, Zenon
<1>2. /\ h \notin Notices
      /\ h.task.op # "flush" => h \notin FlushAnswers
      /\ \A k : ~ReadsKey(h.task, k) => h \notin Brings(k) /\ h \notin Fills(k)
      /\ \A s : h \in Holding(s) => h.cookies = s
  BY Zenon DEF Notices, FlushAnswers, Brings, Fills, Holding
<1>3. /\ \A E : Somewhere(io, E) <=> h \in E \/ Somewhere(Tail(io), E)
      /\ \A N, G : SinceIn(io, N, G) =>
           SinceIn(Tail(io), N, G) /\ (h \in G \/ Somewhere(io, N))
      /\ \A E, F, G : FirstIn(io, E, F, G) => FirstIn(Tail(io), E, F, G)
  BY <1>1, QueueTail
<1> HIDE DEF q, h
<1>4. /\ \A E : Somewhere(q, E) <=> Head(q) \in E \/ Somewhere(Tail(q), E)
      /\ \A E, G : LastIn(q, E, G) => LastIn(Tail(q), E, G)
  BY <1>1, QueueTail
<1>5. ASSUME NEW k, NEW w, NEW v, NEW s, ~ReadsKey(h.task, k), Catching(k, w, q, v, s)
      PROVE  Catching(k, w, Tail(io) \o completions, v, s)
  <2>1. Somewhere(q, Brings(k)) <=> Somewhere(Tail(q), Brings(k))
    BY <1>1, <1>2, <1>4, <1>5, Zenon
  <2>2. Catching(k, w, Tail(q), v, s)
    BY <1>4, <1>5, <2>1, Zenon DEF Catching
  <2> QED
    BY <1>1, <2>2, Zenon
<1>6. ASSUME NEW k, NEW v, NEW z, ~ReadsKey(h.task, k), Following(k, io, v, z)
      PROVE  Following(k, Tail(io), v, z)
  BY <1>2, <1>3, <1>6, Zenon DEF Following
<1> QED
  BY <1>2, <1>3, <1>5, <1>6, Zenon DEF q, h

(* A read of all cookies is answered: the CookieMonster gets them.          *)
LEMMA FlushStoreFromCookiesStep ==
  ASSUME CookieIndInv, kind' = kind, FlushStoreFromCookies
  PROVE  CookieIndInv'
<1> DEFINE h == Head(io)
<1>1. /\ io # <<>> /\ h.task.op = "flush" /\ io' = Tail(io)
      /\ monster' = IF kind = "Persistent" THEN monster ELSE h.cookies
      /\ flush_closure' = FALSE /\ timer' = FALSE
      /\ UNCHANGED <<store, notifications, announced, wk, completions, monsterTasks, hook_map, cache,
                     seen, refreshed, changes, flushes>>
  BY Zenon DEF FlushStoreFromCookies, Runs, CancelFlush, systemVars, wkVars, cacheVars
<1>2. PlainTypes /\ QueueTypes /\ TasksFollowKind /\ Current /\ CatchUp /\ FollowUp /\ ReadUp
  BY Zenon DEF CookieIndInv
<1>3. h.task.op # "notify" /\ h.task.op # "cache"
  BY <1>1
<1>4. Tail(io) \in Seq(IOTasksOf(hook_map)) /\ h \in Answers
  BY <1>1, <1>3, FirstTask, Zenon
<1>5. \A k : ~ReadsKey(h.task, k)
  BY <1>3, Zenon DEF ReadsKey
<1>6. /\ Somewhere(Tail(io), Notices) <=> Somewhere(io, Notices)
      /\ Somewhere(Tail(io), Updates) => Somewhere(io, Updates)
      /\ \A N, G : SinceIn(io, N, G) => SinceIn(Tail(io), N, G)
      /\ \A s : SinceIn(io, Notices, Holding(s)) /\ ~Somewhere(io, Notices) => h.cookies = s
      /\ \A k, w, v, s : Catching(k, w, io \o completions, v, s) =>
           Catching(k, w, Tail(io) \o completions, v, s)
      /\ \A k, v, z : Following(k, io, v, z) => Following(k, Tail(io), v, z)
  BY <1>1, <1>3, <1>5, TaskTaken, Zenon
<1>7. PlainTypes'
  <2>1. monster' \in Jar
    BY <1>1, <1>2, <1>4, AnswerFacts, Zenon DEF PlainTypes
  <2>2. flush_closure' \in BOOLEAN /\ timer' \in BOOLEAN /\ ~timer'
    BY <1>1, Zenon
  <2> QED
    BY <1>1, <1>2, <2>1, <2>2, Zenon DEF PlainTypes
<1>8. QueueTypes' /\ TasksFollowKind'
  BY <1>1, <1>2, <1>4, Zenon DEF QueueTypes, TasksFollowKind
<1>9. Current'
  BY <1>1, <1>2, <1>6, Zenon DEF Current
<1>10. CatchUp' /\ FollowUp'
  BY <1>1, <1>2, <1>6, Zenon DEF CatchUp, FollowUp
<1>11. FlushUp'
  <2>1. ~flush_closure'
    BY <1>1, Zenon
  <2>2. ASSUME kind = "NSHTTP", notifications' = 0, ~Somewhere(io', Notices)
        PROVE  monster' = store'
    <3>1. kind # "Persistent"
      BY <2>2
    <3>2. h.cookies = store
      BY <1>1, <1>2, <1>6, <2>2, Zenon DEF Current
    <3> QED
      BY <1>1, <3>1, <3>2, Zenon
  <2> QED
    BY <2>1, <2>2, Zenon DEF FlushUp
<1>12. ReadUp'
  BY <1>1, <1>2, <1>6, Zenon DEF ReadUp
<1> QED
  BY <1>7, <1>8, <1>9, <1>10, <1>11, <1>12, Zenon DEF CookieIndInv

(* The read of a deletion is answered.                                     *)
LEMMA DeleteCookiesStep ==
  ASSUME CookieIndInv, kind' = kind, DeleteCookiesMatchingPredicate
  PROVE  CookieIndInv'
<1> DEFINE h == Head(io)
           i == h.task.id
<1>1. /\ io # <<>> /\ h.task.op = "delete" /\ io' = Tail(io)
      /\ UNCHANGED <<completions, monster, monsterTasks, hook_map, cache, seen, refreshed,
                     flush_closure, timer, changes, flushes>>
  BY Zenon DEF DeleteCookiesMatchingPredicate, Runs, monsterVars, cacheVars, flushVars
<1>2. PlainTypes /\ QueueTypes /\ TasksFollowKind /\ Current /\ CatchUp /\ FollowUp /\ FlushUp /\ ReadUp
  BY Zenon DEF CookieIndInv
<1>3. h.task.op # "notify" /\ h.task.op # "cache" /\ h.task.op # "flush"
  BY <1>1
<1>4. Tail(io) \in Seq(IOTasksOf(hook_map)) /\ h \in Answers
  BY <1>1, <1>3, FirstTask, Zenon
<1>5. \A k : ~ReadsKey(h.task, k)
  BY <1>3, Zenon DEF ReadsKey
<1>6. i \in Ids
  <2>1. h.task \in ReadTasks \cup DeleteTasks
    BY <1>4, AnswerFacts, Zenon
  <2>2. h.task \notin ReadTasks
    BY <1>1, CookieTaskFacts
  <2> QED
    BY <2>1, <2>2, CookieTaskFacts, Zenon
<1>7. /\ Somewhere(Tail(io), Notices) <=> Somewhere(io, Notices)
      /\ Somewhere(Tail(io), Updates) => Somewhere(io, Updates)
      /\ Somewhere(Tail(io), FlushAnswers) <=> Somewhere(io, FlushAnswers)
      /\ \A N, G : SinceIn(io, N, G) => SinceIn(Tail(io), N, G)
      /\ \A k, w, v, s : Catching(k, w, io \o completions, v, s) =>
           Catching(k, w, Tail(io) \o completions, v, s)
      /\ \A k, v, z : Following(k, io, v, z) => Following(k, Tail(io), v, z)
  BY <1>1, <1>3, <1>5, TaskTaken, Zenon
<1>8. FollowUp' /\ ReadUp'
  BY <1>1, <1>2, <1>7, Zenon DEF FollowUp, ReadUp
<1>9. CASE ~Matches(h.cookies, i, h.task.value)
  <2>1. UNCHANGED <<store, notifications, announced, wk>>
    BY <1>9, Zenon DEF DeleteCookiesMatchingPredicate, systemVars
  <2>2. PlainTypes' /\ QueueTypes' /\ TasksFollowKind'
    BY <1>1, <1>2, <1>4, <2>1, Zenon DEF PlainTypes, QueueTypes, TasksFollowKind
  <2>3. Current' /\ CatchUp' /\ FlushUp'
    BY <1>1, <1>2, <1>7, <2>1, Zenon DEF Current, CatchUp, FlushUp
  <2> QED
    BY <1>8, <2>2, <2>3, Zenon DEF CookieIndInv
<1>10. CASE Matches(h.cookies, i, h.task.value) /\ kind = "WKHTTP"
  <2>1. wk' = Append(wk, Write(i, None)) /\ UNCHANGED <<store, notifications, announced>>
    BY <1>10, Zenon DEF DeleteCookiesMatchingPredicate, systemVars
  <2>2. kind # "NSHTTP"
    BY <1>10
  <2>3. wk' \in Seq(RequestsOf(hook_map)) /\ \A E : Somewhere(wk, E) => Somewhere(wk', E)
    <3>1. None \in Values \cup {None}
      OBVIOUS
    <3>2. Write(i, None) \in RequestsOf(hook_map)
      BY <1>6, <3>1, WritesAreRequests, Zenon
    <3> QED
      BY <1>2, <2>1, <3>2, RequestJoins, Zenon DEF QueueTypes
  <2>4. PlainTypes' /\ QueueTypes' /\ TasksFollowKind'
    BY <1>1, <1>2, <1>4, <1>10, <2>1, <2>3, Zenon DEF PlainTypes, QueueTypes, TasksFollowKind
  <2>5. Current' /\ FlushUp'
    BY <2>2, Zenon DEF Current, FlushUp
  <2>6. CatchUp'
    <3>1. \A k, q, v, s : Catching(k, wk, q, v, s) => Catching(k, wk', q, v, s)
      BY <2>3, Zenon DEF Catching
    <3> QED
      BY <1>1, <1>2, <1>7, <2>1, <3>1, Zenon DEF CatchUp
  <2> QED
    BY <1>8, <2>4, <2>5, <2>6, Zenon DEF CookieIndInv
<1>11. CASE Matches(h.cookies, i, h.task.value) /\ kind # "WKHTTP"
  <2>1. ChangeStore([store EXCEPT ![i] = None]) /\ wk' = wk
    BY <1>11, Zenon DEF DeleteCookiesMatchingPredicate, Without
  <2>2. None \in Values \cup {None}
    OBVIOUS
  <2>3. /\ store' \in Jar /\ notifications' \in Nat /\ announced' \in BOOLEAN
        /\ Current' /\ CatchUp'
        /\ (kind = "NSHTTP" => (flush_closure' => timer' \/ Somewhere(io', FlushAnswers))) => FlushUp'
    <3> HIDE DEF i
    <3> QED
      BY <1>6, <2>1, <2>2, StoreChanges
  <2>4. PlainTypes' /\ QueueTypes' /\ TasksFollowKind'
    BY <1>1, <1>2, <1>4, <2>1, <2>3, Zenon DEF PlainTypes, QueueTypes, TasksFollowKind
  <2>5. FlushUp'
    BY <1>1, <1>2, <1>7, <2>3, Zenon DEF FlushUp
  <2> QED
    BY <1>8, <2>3, <2>4, <2>5, Zenon DEF CookieIndInv
<1> QED
  BY <1>9, <1>10, <1>11

(* A read of a key is answered: the cache is updated.                      *)
LEMMA UpdateCacheForCookiesStep ==
  ASSUME CookieIndInv, kind' = kind, UpdateCacheForCookies
  PROVE  CookieIndInv'
<1> DEFINE h == Head(io)
           k == h.task.key
           c == h.cookies
           run == h.task.run_callbacks
           q == io \o completions
<1>1. /\ io # <<>> /\ h.task.op = "cache" /\ io' = Tail(io) /\ UpdateCache(k, c, run)
      /\ refreshed' = IF run THEN refreshed \cup {k} ELSE refreshed \ {k}
      /\ UNCHANGED <<store, notifications, announced, wk, completions, monster, monsterTasks,
                     hook_map, flush_closure, timer, changes, flushes>>
  BY Zenon DEF UpdateCacheForCookies, Runs, systemVars, wkVars, monsterVars, flushVars
<1>2. PlainTypes /\ QueueTypes /\ TasksFollowKind /\ Current /\ CatchUp /\ FollowUp /\ FlushUp /\ ReadUp
  BY Zenon DEF CookieIndInv
<1>3. h.task.op # "notify" /\ h.task.op # "flush"
  BY <1>1
<1>4. /\ Tail(io) \in Seq(IOTasksOf(hook_map)) /\ h \in AnswersOf(hook_map) /\ h \in Answers
      /\ h \in IOTasks
      /\ Head(q) = h /\ Tail(q) = Tail(io) \o completions /\ q # <<>> /\ q \in Seq(IOTasks)
  BY <1>1, <1>3, FirstTask, Zenon
<1>5. k \in hook_map /\ k \in Keys /\ c \in Jar
  BY <1>1, <1>2, <1>4, AnswerFacts, Zenon DEF AnswersOf, PlainTypes
<1>6. \A j : ReadsKey(h.task, j) <=> j = k
  BY <1>1, Zenon DEF ReadsKey
<1> HIDE DEF k, c, run
<1>7. /\ DOMAIN cache' = Keys /\ DOMAIN seen' = Keys
      /\ \A j \in Keys : /\ cache'[j] \in [j -> Values \cup {None}]
                         /\ seen'[j] \in [j -> Values \cup {None}]
      /\ cache'[k] = Of(k, c)
      /\ \A j \in Keys : j # k => cache'[j] = cache[j] /\ seen'[j] = seen[j]
      /\ ~run => seen' = seen
      /\ run /\ seen[k] = cache[k] => seen'[k] = Of(k, c)
  BY <1>1, <1>2, <1>5, UpdateCacheFacts DEF PlainTypes
<1>8. /\ Somewhere(Tail(io), Notices) <=> Somewhere(io, Notices)
      /\ Somewhere(Tail(io), Updates) => Somewhere(io, Updates)
      /\ Somewhere(Tail(io), FlushAnswers) <=> Somewhere(io, FlushAnswers)
      /\ \A N, G : SinceIn(io, N, G) => SinceIn(Tail(io), N, G)
      /\ \A j, w, v, s : j # k /\ Catching(j, w, io \o completions, v, s) =>
           Catching(j, w, Tail(io) \o completions, v, s)
      /\ \A j, v, z : j # k /\ Following(j, io, v, z) => Following(j, Tail(io), v, z)
  BY <1>1, <1>3, <1>6, TaskTaken, Zenon
<1>9. /\ h \in Brings(k)
      /\ h \in Fills(k) <=> ~run
      /\ \A v : h \in Shows(k, v) <=> Of(k, c) = v
      /\ run => h \in Updates
  BY <1>1, <1>4, <1>6, Zenon DEF Brings, Fills, Shows, Updates, run, c
<1>10. refreshed' \subseteq hook_map /\ \A j \in refreshed' : j \in refreshed \/ (run /\ j = k)
  BY <1>1, <1>2, <1>5, Zenon DEF PlainTypes
<1>11. PlainTypes'
  BY <1>1, <1>2, <1>7, <1>10, Zenon DEF PlainTypes
<1>12. QueueTypes' /\ TasksFollowKind'
  BY <1>1, <1>2, <1>4, Zenon DEF QueueTypes, TasksFollowKind
<1>13. Current' /\ FlushUp'
  BY <1>1, <1>2, <1>8, Zenon DEF Current, FlushUp
<1>14. CatchUp'
  <2> SUFFICES ASSUME kind # "Persistent", notifications = 0, ~Somewhere(io, Notices),
                      NEW j \in hook_map
               PROVE  Catching(j, wk, Tail(io) \o completions, cache'[j], store)
    BY <1>1, <1>8, Zenon DEF CatchUp
  <2>1. Catching(j, wk, q, cache[j], store)
    BY <1>2, Zenon DEF CatchUp
  <2>2. CASE j # k
    BY <1>2, <1>7, <1>8, <2>1, <2>2, Zenon DEF PlainTypes
  <2>3. CASE j = k
    <3> HIDE DEF q, h
    <3>1. \A E, G : LastIn(q, E, G) =>
            /\ LastIn(Tail(q), E, G)
            /\ Head(q) \in E => Head(q) \in G \/ Somewhere(Tail(q), E)
      BY <1>4, QueueTail
    <3>2. Catching(k, wk, Tail(q), cache'[k], store)
      BY <1>4, <1>7, <1>9, <2>1, <2>3, <3>1, Zenon DEF Catching
    <3> QED
      BY <1>4, <2>3, <3>2, Zenon
  <2> QED
    BY <2>2, <2>3
<1>15. FollowUp'
  <2> SUFFICES ASSUME kind = "NSHTTP", NEW j \in hook_map
               PROVE  Following(j, Tail(io), cache'[j], seen'[j])
    BY <1>1, Zenon DEF FollowUp
  <2>1. Following(j, io, cache[j], seen[j])
    BY <1>2, Zenon DEF FollowUp
  <2>2. CASE j # k
    BY <1>2, <1>7, <1>8, <2>1, <2>2, Zenon DEF PlainTypes
  <2>3. CASE j = k
    <3> HIDE DEF h
    <3>0. io \in Seq(IOTasks)
      BY CookieQueues, Zenon
    <3>1. /\ \A E : Somewhere(io, E) <=> h \in E \/ Somewhere(Tail(io), E)
          /\ \A E, F, G : FirstIn(io, E, F, G) =>
               /\ FirstIn(Tail(io), E, F, G)
               /\ h \in F => h \in G
               /\ h \in E => ~Somewhere(Tail(io), F)
      BY <1>1, <3>0, QueueTail DEF h
    <3>2. ~Somewhere(Tail(io), Fills(k)) /\ FirstIn(io, Brings(k), Fills(k), Shows(k, seen[k]))
      BY <1>9, <2>1, <2>3, <3>1, Zenon DEF Following
    <3>3. FirstIn(Tail(io), Brings(k), Fills(k), Shows(k, seen'[k]))
      BY <3>2, Zenon DEF FirstIn, Somewhere
    <3>4. seen'[k] = Of(k, c)
      <4>1. CASE run
        <5>1. ~Somewhere(io, Fills(k))
          BY <1>9, <3>1, <3>2, <4>1, Zenon
        <5>2. cache[k] = seen[k]
          BY <2>1, <2>3, <5>1, Zenon DEF Following
        <5> QED
          BY <1>7, <4>1, <5>2, Zenon
      <4>2. CASE ~run
        <5>1. h \in Shows(k, seen[k])
          BY <1>9, <3>1, <3>2, <4>2, Zenon
        <5>2. Of(k, c) = seen[k] /\ seen' = seen
          BY <1>7, <1>9, <4>2, <5>1, Zenon
        <5> QED
          BY <5>2, Zenon
      <4> QED
        BY <4>1, <4>2, Zenon
    <3> QED
      BY <1>7, <2>3, <3>3, <3>4, Zenon DEF Following
  <2> QED
    BY <2>2, <2>3
<1>16. ReadUp'
  <2> SUFFICES ASSUME kind = "Persistent"
               PROVE  /\ ~Somewhere(io', Updates)
                      /\ \A j \in refreshed' : Somewhere(monsterTasks, Wants(j)) \/ cache'[j] = Of(j, monster)
    BY <1>1, Zenon DEF ReadUp
  <2>1. ~Somewhere(io, Updates)
    BY <1>2, Zenon DEF ReadUp
  <2>2. ~run
    <3>0. io \in Seq(IOTasks)
      BY CookieQueues, Zenon
    <3>1. h \notin Updates
      BY <1>1, <2>1, <3>0, QueueTail
    <3> QED
      BY <1>9, <3>1, Zenon
  <2>3. \A j \in refreshed' : j \in refreshed /\ j # k /\ j \in Keys
    <3>1. refreshed' = refreshed \ {k}
      BY <1>1, <2>2, Zenon
    <3>2. refreshed \subseteq Keys
      BY <1>2, Zenon DEF PlainTypes
    <3> QED
      BY <3>1, <3>2, Zenon
  <2> QED
    BY <1>1, <1>2, <1>7, <1>8, <2>1, <2>3, Zenon DEF ReadUp
<1> QED
  BY <1>11, <1>12, <1>13, <1>14, <1>15, <1>16, Zenon DEF CookieIndInv

(* The CookieMonster of a persistent store does what it was asked.          *)
LEMMA MonsterServesStep ==
  ASSUME CookieIndInv, kind' = kind, MonsterServes
  PROVE  CookieIndInv'
<1> DEFINE t == Head(monsterTasks)
           r == ReadsOfChange
<1>1. /\ monsterTasks # <<>>
      /\ monsterTasks' = Tail(monsterTasks) \o (IF UpdatesCaches(t) THEN r ELSE <<>>)
      /\ UNCHANGED <<store, notifications, announced, io, wk, completions, hook_map, flush_closure,
                     timer, changes, flushes>>
  BY Zenon DEF MonsterServes, systemVars, wkVars, flushVars
<1>2. PlainTypes /\ QueueTypes /\ TasksFollowKind /\ ReadUp
  BY Zenon DEF CookieIndInv
<1>3. kind = "Persistent" /\ kind # "NSHTTP" /\ kind # "WKHTTP"
  <2>1. kind = "Persistent"
    BY <1>1, <1>2, Zenon DEF TasksFollowKind
  <2> QED
    BY <2>1
<1>4. /\ monsterTasks \in Seq(RequestsOf(hook_map)) /\ t \in RequestsOf(hook_map)
      /\ Tail(monsterTasks) \in Seq(RequestsOf(hook_map))
  <2>1. monsterTasks \in Seq(RequestsOf(hook_map))
    BY <1>2, Zenon DEF QueueTypes
  <2> QED
    BY <1>1, <2>1
<1>5. t \in Requests /\ (t.op = "cache" => t.key \in hook_map)
  BY <1>4, Zenon DEF RequestsOf
<1>6. /\ r \in Seq(RequestsOf(hook_map))
      /\ \A k \in hook_map : Somewhere(r, Wants(k))
  BY <1>2, ReadsOfChangeFacts, Zenon DEF PlainTypes
<1> HIDE DEF r
<1>7. Current' /\ CatchUp' /\ FollowUp' /\ FlushUp'
  BY <1>3, Zenon DEF Current, CatchUp, FollowUp, FlushUp
<1>8. CASE UpdatesCaches(t)
  <2>1. t.op # "cache" /\ t \in WriteTasks \cup DeleteTasks
    BY <1>5, <1>8, CookieTaskFacts DEF UpdatesCaches, Requests
  <2>2. UNCHANGED <<cache, seen, refreshed>>
    BY <2>1, Zenon DEF MonsterServes
  <2>3. monster' \in Jar
    <3>1. t.id \in Ids /\ t.value \in Values \cup {None} /\ monster \in Jar
      BY <1>2, <2>1, CookieTaskFacts, Zenon DEF PlainTypes
    <3>2. \/ monster' = [monster EXCEPT ![t.id] = t.value]
          \/ monster' = [monster EXCEPT ![t.id] = None]
          \/ monster' = monster
      BY <1>8 DEF MonsterServes, UpdatesCaches, Without
    <3> HIDE DEF t
    <3> QED
      BY <3>1, <3>2 DEF Jar
  <2>4. /\ monsterTasks' \in Seq(RequestsOf(hook_map))
        /\ \A k \in hook_map : Somewhere(monsterTasks', Wants(k))
    <3>1. monsterTasks' = Tail(monsterTasks) \o r
      BY <1>1, <1>8, Zenon
    <3>2. \A E : Somewhere(Tail(monsterTasks) \o r, E) <=>
                   Somewhere(Tail(monsterTasks), E) \/ Somewhere(r, E)
      BY <1>4, <1>6, QueueConcat
    <3>3. Tail(monsterTasks) \o r \in Seq(RequestsOf(hook_map))
      BY <1>4, <1>6
    <3> QED
      BY <1>6, <3>1, <3>2, <3>3, Zenon
  <2>5. PlainTypes' /\ QueueTypes' /\ TasksFollowKind'
    BY <1>1, <1>2, <1>3, <2>2, <2>3, <2>4, Zenon DEF PlainTypes, QueueTypes, TasksFollowKind
  <2>6. ReadUp'
    BY <1>1, <1>2, <2>2, <2>4, Zenon DEF ReadUp, PlainTypes
  <2> QED
    BY <1>7, <2>5, <2>6, Zenon DEF CookieIndInv
<1>9. CASE ~UpdatesCaches(t)
  <2>1. t.op # "set" /\ t.op # "delete"
    BY <1>9 DEF UpdatesCaches
  <2>2. monster' = monster
    BY <2>1 DEF MonsterServes
  <2>3. monsterTasks' = Tail(monsterTasks)
    <3>1. monsterTasks' = Tail(monsterTasks) \o <<>>
      BY <1>1, <1>9, Zenon
    <3> QED
      BY <1>4, <3>1
  <2>4. \A E : Somewhere(monsterTasks, E) <=> t \in E \/ Somewhere(Tail(monsterTasks), E)
    BY <1>1, <1>4, QueueTail
  <2>5. \A j : t \in Wants(j) => t.op = "cache" /\ t.key = j
    BY Zenon DEF Wants, ReadsKey
  <2>6. CASE t.op = "cache"
    <3> DEFINE k == t.key
    <3>1. UpdateCache(k, monster, TRUE) /\ refreshed' = refreshed \cup {k}
      BY <2>6, Zenon DEF MonsterServes
    <3>2. k \in hook_map /\ k \in Keys /\ monster \in Jar
      BY <1>2, <1>5, <2>6, Zenon DEF PlainTypes
    <3> HIDE DEF k
    <3>3. /\ DOMAIN cache' = Keys /\ DOMAIN seen' = Keys
          /\ \A j \in Keys : /\ cache'[j] \in [j -> Values \cup {None}]
                             /\ seen'[j] \in [j -> Values \cup {None}]
          /\ cache'[k] = Of(k, monster)
          /\ \A j \in Keys : j # k => cache'[j] = cache[j] /\ seen'[j] = seen[j]
      BY <1>2, <3>1, <3>2, UpdateCacheFacts DEF PlainTypes
    <3>4. refreshed' \subseteq hook_map /\ refreshed \subseteq Keys
      BY <1>2, <3>1, <3>2, Zenon DEF PlainTypes
    <3>5. PlainTypes' /\ QueueTypes' /\ TasksFollowKind'
      BY <1>1, <1>2, <1>3, <1>4, <2>2, <2>3, <3>3, <3>4, Zenon DEF PlainTypes, QueueTypes, TasksFollowKind
    <3>6. ReadUp'
      <4> SUFFICES ASSUME NEW j \in refreshed'
                   PROVE  Somewhere(Tail(monsterTasks), Wants(j)) \/ cache'[j] = Of(j, monster)
        BY <1>1, <1>2, <2>2, <2>3, Zenon DEF ReadUp
      <4>1. CASE j = k
        BY <3>3, <4>1, Zenon
      <4>2. CASE j # k
        <5>1. j \in refreshed /\ j \in Keys /\ t \notin Wants(j)
          BY <2>5, <3>1, <3>4, <4>2, Zenon DEF k
        <5> QED
          BY <1>2, <1>3, <2>4, <3>3, <4>2, <5>1, Zenon DEF ReadUp
      <4> QED
        BY <4>1, <4>2
    <3> QED
      BY <1>7, <3>5, <3>6, Zenon DEF CookieIndInv
  <2>7. CASE t.op # "cache"
    <3>1. UNCHANGED <<cache, seen, refreshed>>
      BY <2>7, Zenon DEF MonsterServes
    <3>2. PlainTypes' /\ QueueTypes' /\ TasksFollowKind'
      BY <1>1, <1>2, <1>3, <1>4, <2>2, <2>3, <3>1, Zenon DEF PlainTypes, QueueTypes, TasksFollowKind
    <3>3. ReadUp'
      BY <1>1, <1>2, <2>2, <2>3, <2>4, <2>5, <2>7, <3>1, Zenon DEF ReadUp
    <3> QED
      BY <1>7, <3>2, <3>3, Zenon DEF CookieIndInv
  <2> QED
    BY <2>6, <2>7
<1> QED
  BY <1>8, <1>9

-----------------------------------------------------------------------------
(* The invariant holds at the start and implies what it is for.             *)

(* Nothing is in an empty queue.                                           *)
LEMMA EmptyQueue ==
  /\ \A E : ~Somewhere(<<>>, E)
  /\ \A E, G : LastIn(<<>>, E, G)
  /\ \A N, G : SinceIn(<<>>, N, G)
  /\ \A E, F, G : FirstIn(<<>>, E, F, G)
<1>1. \A n \in 1 .. Len(<<>>) : FALSE
  OBVIOUS
<1> QED
  BY <1>1, Zenon DEF Somewhere, LastIn, SinceIn, FirstIn

(* Initially nothing is observed and nothing is on its way.                 *)
LEMMA CookieInitHolds ==
  ASSUME CookieInit
  PROVE  CookieIndInv
<1>1. /\ kind \in {"NSHTTP", "WKHTTP", "Persistent"} /\ store \in Jar /\ notifications = 0
      /\ announced = FALSE /\ io = <<>> /\ wk = <<>> /\ completions = <<>> /\ monsterTasks = <<>>
      /\ hook_map = {} /\ refreshed = {} /\ cache = [k \in Keys |-> Empty(k)] /\ seen = cache
      /\ flush_closure = FALSE /\ timer = FALSE /\ changes = 0 /\ flushes = 0
  BY Zenon DEF CookieInit
<1>2. monster \in Jar
  <2>1. Empty(Ids) \in Jar
    BY DEF Empty, Jar
  <2>2. monster \in IF kind = "Persistent" THEN Jar ELSE {Empty(Ids)}
    BY Zenon DEF CookieInit
  <2> QED
    BY <2>1, <2>2, Zenon
<1>3. /\ DOMAIN cache = Keys /\ DOMAIN seen = Keys
      /\ \A k \in Keys : cache[k] \in [k -> Values \cup {None}] /\ seen[k] \in [k -> Values \cup {None}]
  <2>1. \A k : Empty(k) \in [k -> Values \cup {None}]
    BY DEF Empty
  <2> QED
    BY <1>1, <2>1, Zenon
<1>4. notifications \in Nat /\ changes \in 0 .. MaxChanges /\ flushes \in 0 .. MaxFlushes
  BY <1>1
<1>5. flush_closure \in BOOLEAN /\ timer \in BOOLEAN /\ announced \in BOOLEAN /\ ~timer
      /\ ~flush_closure /\ ~announced
  BY <1>1, Zenon
<1>6. PlainTypes
  BY <1>1, <1>2, <1>3, <1>4, <1>5, Zenon DEF PlainTypes
<1>7. QueueTypes /\ TasksFollowKind
  <2>1. \A S : <<>> \in Seq(S)
    BY EmptySeq
  <2> QED
    BY <1>1, <2>1, Zenon DEF QueueTypes, TasksFollowKind
<1>8. Current /\ CatchUp /\ FollowUp
  BY <1>1, EmptyQueue, Zenon DEF Current, CatchUp, FollowUp
<1>9. FlushUp /\ ReadUp
  BY <1>1, <1>5, EmptyQueue, Zenon DEF FlushUp, ReadUp
<1> QED
  BY <1>6, <1>7, <1>8, <1>9, Zenon DEF CookieIndInv

(* Every step preserves the invariant.                                     *)
LEMMA CookieNextHolds ==
  ASSUME CookieIndInv, [CookieNext]_<<cookieStoreVars, kind>>
  PROVE  CookieIndInv'
<1>1. CASE CookieNext
  <2>1. kind' = kind /\ Step
    BY <1>1, Zenon DEF CookieNext
  <2>2. CASE \E i \in Ids, v \in Values \cup {None} : SystemChange(i, v)
    BY <2>1, <2>2, SystemChangeStep
  <2>3. CASE \E i \in Ids, v \in Values : SetCookie(i, v)
    BY <2>1, <2>3, SetCookieStep
  <2>4. CASE \E i \in Ids, v \in Values : DeleteCanonicalCookieAsync(i, v)
    BY <2>1, <2>4, DeleteCanonicalCookieStep
  <2>5. CASE \E k \in Keys : AddCallbackForCookie(k)
    BY <2>1, <2>5, AddCallbackForCookieStep
  <2>6. CASE OnNotificationReceived
    BY <2>1, <2>6, OnNotificationReceivedStep
  <2>7. CASE WebKitServes
    BY <2>1, <2>7, WebKitServesStep
  <2>8. CASE CompletionHandler
    BY <2>1, <2>8, CompletionHandlerStep
  <2>9. CASE FlushStore \/ FlushTimer
    BY <2>1, <2>9, FlushStep
  <2>10. CASE OnSystemCookiesChanged
    BY <2>1, <2>10, OnSystemCookiesChangedStep
  <2>11. CASE UpdateCacheForCookies
    BY <2>1, <2>11, UpdateCacheForCookiesStep
  <2>12. CASE FlushStoreFromCookies
    BY <2>1, <2>12, FlushStoreFromCookiesStep
  <2>13. CASE DeleteCookiesMatchingPredicate
    BY <2>1, <2>13, DeleteCookiesStep
  <2>14. CASE MonsterServes
    BY <2>1, <2>14, MonsterServesStep
  <2> QED
    BY <2>1, <2>2, <2>3, <2>4, <2>5, <2>6, <2>7, <2>8, <2>9, <2>10, <2>11, <2>12, <2>13, <2>14, Zenon
       DEF Step, RunCookieTask
<1>2. CASE UNCHANGED <<cookieStoreVars, kind>>
  <2>1. /\ UNCHANGED <<kind, store, notifications, announced, io, wk, completions>>
        /\ UNCHANGED <<monster, monsterTasks, hook_map, cache, seen, refreshed, flush_closure, timer,
                       changes, flushes>>
    BY <1>2, Zenon DEF cookieStoreVars, systemVars, wkVars, monsterVars, cacheVars, flushVars
  <2>2. PlainTypes' /\ QueueTypes' /\ TasksFollowKind'
    BY <2>1, Zenon DEF CookieIndInv, PlainTypes, QueueTypes, TasksFollowKind
  <2>3. Current' /\ CatchUp' /\ FollowUp' /\ FlushUp' /\ ReadUp'
    BY <2>1, Zenon DEF CookieIndInv, Current, CatchUp, FollowUp, FlushUp, ReadUp
  <2> QED
    BY <2>2, <2>3, Zenon DEF CookieIndInv
<1> QED
  BY <1>1, <1>2

(* What the places of a queue of the IO thread hold.                       *)
LEMMA PlacesOfQueue ==
  ASSUME NEW q \in Seq(IOTasks)
  PROVE  /\ DOMAIN q = 1 .. Len(q)
         /\ \A n \in 1 .. Len(q) :
              /\ q[n] \in IOTasks
              /\ q[n] \in Notices <=> q[n].task.op = "notify"
              /\ q[n] \in FlushAnswers <=> q[n].task.op = "flush"
              /\ q[n] \in Updates <=> q[n].task.op = "cache" /\ q[n].task.run_callbacks
              /\ \A s : q[n] \in Holding(s) <=> q[n].cookies = s
              /\ \A k : q[n] \in Brings(k) <=> ReadsKey(q[n].task, k)
              /\ \A k : q[n] \in Fills(k) <=> ReadsKey(q[n].task, k) /\ ~q[n].task.run_callbacks
              /\ \A k, v : q[n] \in Shows(k, v) <=> Of(k, q[n].cookies) = v
<1>1. DOMAIN q = 1 .. Len(q) /\ \A n \in 1 .. Len(q) : q[n] \in IOTasks
  OBVIOUS
<1> QED
  BY <1>1, Zenon DEF Notices, FlushAnswers, Updates, Holding, Brings, Fills, Shows

(* The invariant implies the parts that runs check.                        *)
LEMMA CookieIndInvImplies ==
  ASSUME CookieIndInv
  PROVE  CookieInv
<1>1. PlainTypes /\ QueueTypes /\ TasksFollowKind /\ Current /\ CatchUp /\ FollowUp /\ FlushUp /\ ReadUp
  BY Zenon DEF CookieIndInv
<1>2. /\ io \in Seq(IOTasks) /\ completions \in Seq(IOTasks)
      /\ wk \in Seq(Requests) /\ monsterTasks \in Seq(Requests)
      /\ completions \in Seq(Answers)
  BY CookieQueues, Zenon
<1> DEFINE q == io \o completions
<1>3. q \in Seq(IOTasks)
  BY <1>2
<1> HIDE DEF q
<1>4. /\ DOMAIN io = 1 .. Len(io)
      /\ \A n \in 1 .. Len(io) :
           /\ io[n] \in IOTasks
           /\ io[n] \in Notices <=> io[n].task.op = "notify"
           /\ io[n] \in FlushAnswers <=> io[n].task.op = "flush"
           /\ io[n] \in Updates <=> io[n].task.op = "cache" /\ io[n].task.run_callbacks
           /\ \A s : io[n] \in Holding(s) <=> io[n].cookies = s
           /\ \A k : io[n] \in Brings(k) <=> ReadsKey(io[n].task, k)
           /\ \A k : io[n] \in Fills(k) <=> ReadsKey(io[n].task, k) /\ ~io[n].task.run_callbacks
           /\ \A k, v : io[n] \in Shows(k, v) <=> Of(k, io[n].cookies) = v
  BY <1>2, PlacesOfQueue
<1>5. /\ DOMAIN q = 1 .. Len(q)
      /\ \A n \in 1 .. Len(q) :
           /\ \A k : q[n] \in Brings(k) <=> ReadsKey(q[n].task, k)
           /\ \A k, v : q[n] \in Shows(k, v) <=> Of(k, q[n].cookies) = v
  BY <1>3, PlacesOfQueue
<1>6. /\ DOMAIN wk = 1 .. Len(wk) /\ \A n \in 1 .. Len(wk) : wk[n] \in RequestsOf(hook_map)
      /\ DOMAIN monsterTasks = 1 .. Len(monsterTasks)
      /\ \A n \in 1 .. Len(monsterTasks) : monsterTasks[n] \in RequestsOf(hook_map)
      /\ DOMAIN completions = 1 .. Len(completions)
      /\ \A n \in 1 .. Len(completions) : completions[n] \in AnswersOf(hook_map)
      /\ \A n \in 1 .. Len(io) : io[n] \in IOTasksOf(hook_map)
  <2>1. /\ wk \in Seq(RequestsOf(hook_map)) /\ monsterTasks \in Seq(RequestsOf(hook_map))
        /\ completions \in Seq(AnswersOf(hook_map)) /\ io \in Seq(IOTasksOf(hook_map))
    BY <1>1, Zenon DEF QueueTypes
  <2> QED
    BY <2>1
<1>7. /\ \A k : Somewhere(wk, Wants(k)) <=> \E n \in DOMAIN wk : ReadsKey(wk[n], k)
      /\ \A k : Somewhere(monsterTasks, Wants(k)) <=>
                  \E n \in DOMAIN monsterTasks : ReadsKey(monsterTasks[n], k)
  BY <1>6, Zenon DEF Somewhere, Wants, RequestsOf
<1>8. CookieTypeOK
  BY <1>1, <1>2, Zenon DEF CookieTypeOK, PlainTypes, IOTasks
<1>9. Noticed <=> notifications = 0 /\ ~Somewhere(io, Notices)
  BY <1>4, Zenon DEF Noticed, Somewhere
<1>10. ReadsAreHooked
  <2>1. \A n \in DOMAIN io : io[n].task.op = "cache" => io[n].task.key \in hook_map
    <3> SUFFICES ASSUME NEW n \in DOMAIN io, io[n].task.op = "cache" PROVE io[n].task.key \in hook_map
      OBVIOUS
    <3>1. io[n].task.op # "notify"
      OBVIOUS
    <3>2. io[n] # Notify
      BY <3>1, AnswerFacts, Zenon
    <3> QED
      BY <1>4, <1>6, <3>2, Zenon DEF IOTasksOf, AnswersOf
  <2> QED
    BY <1>6, <2>1, Zenon DEF ReadsAreHooked, AnswersOf, RequestsOf
<1>11. AnswersAreCurrent
  BY <1>1, <1>4, Zenon DEF AnswersAreCurrent, Current, SinceIn
<1>12. ReadsCatchUp
  <2> SUFFICES ASSUME kind # "Persistent", Noticed, NEW k \in hook_map,
                      ~\E n \in DOMAIN wk : ReadsKey(wk[n], k)
               PROVE  /\ \A n \in DOMAIN q : ReadsKey(q[n].task, k) =>
                           \/ Of(k, q[n].cookies) = Of(k, store)
                           \/ \E m \in DOMAIN q : m > n /\ ReadsKey(q[m].task, k)
                      /\ (\A n \in DOMAIN q : ~ReadsKey(q[n].task, k)) => cache[k] = Of(k, store)
    BY Zenon DEF ReadsCatchUp, q
  <2>1. /\ LastIn(q, Brings(k), Shows(k, Of(k, store)))
        /\ Somewhere(q, Brings(k)) \/ cache[k] = Of(k, store)
    BY <1>1, <1>7, <1>9, Zenon DEF CatchUp, Catching, q
  <2> QED
    BY <1>5, <2>1, Zenon DEF LastIn, Somewhere
<1>13. SubscribersFollowCache
  <2> SUFFICES ASSUME kind = "NSHTTP", NEW k \in hook_map
               PROVE  /\ \A n \in DOMAIN io : ReadsKey(io[n].task, k) /\ ~io[n].task.run_callbacks =>
                           /\ Of(k, io[n].cookies) = seen[k]
                           /\ \A m \in DOMAIN io : m < n => ~ReadsKey(io[m].task, k)
                      /\ \/ \E n \in DOMAIN io : ReadsKey(io[n].task, k) /\ ~io[n].task.run_callbacks
                         \/ cache[k] = seen[k]
    BY Zenon DEF SubscribersFollowCache
  <2>1. Following(k, io, cache[k], seen[k])
    BY <1>1, Zenon DEF FollowUp
  <2>2. FirstIn(io, Brings(k), Fills(k), Shows(k, seen[k]))
    BY <2>1, Zenon DEF Following
  <2>3. ASSUME NEW n \in 1 .. Len(io), ReadsKey(io[n].task, k), ~io[n].task.run_callbacks
        PROVE  /\ Of(k, io[n].cookies) = seen[k]
               /\ \A m \in 1 .. Len(io) : m < n => ~ReadsKey(io[m].task, k)
    <3>1. io[n] \in Fills(k)
      BY <1>4, <2>3, Zenon
    <3>2. io[n] \in Shows(k, seen[k]) /\ \A m \in 1 .. Len(io) : m < n => io[m] \notin Brings(k)
      BY <2>2, <3>1, Zenon DEF FirstIn
    <3> QED
      BY <1>4, <3>2, Zenon
  <2>4. \/ \E n \in 1 .. Len(io) : ReadsKey(io[n].task, k) /\ ~io[n].task.run_callbacks
        \/ cache[k] = seen[k]
    BY <1>4, <2>1, Zenon DEF Following, Somewhere
  <2> QED
    BY <1>4, <2>3, <2>4, Zenon
<1>14. Somewhere(io, FlushAnswers) <=> \E n \in DOMAIN io : io[n].task.op = "flush"
  BY <1>4, Zenon DEF Somewhere
<1>15. FlushIsToCome
  BY <1>1, <1>9, <1>14, Zenon DEF FlushIsToCome, FlushUp
<1>16. MonsterIsReadAgain
  BY <1>1, <1>4, <1>7, Zenon DEF MonsterIsReadAgain, ReadUp, Somewhere
<1>17. ASSUME Quiet
       PROVE  /\ kind # "Persistent" => \A k \in hook_map : cache[k] = Of(k, store)
              /\ kind = "Persistent" => \A k \in refreshed : cache[k] = Of(k, monster)
              /\ kind = "NSHTTP" => \A k \in hook_map : cache[k] = seen[k]
              /\ kind = "NSHTTP" /\ ~flush_closure /\ announced => monster = store
  <2>1. /\ notifications = 0 /\ io = <<>> /\ wk = <<>> /\ completions = <<>> /\ monsterTasks = <<>>
        /\ <<>> \o <<>> = <<>>
    <3>1. <<>> \o <<>> = <<>>
      OBVIOUS
    <3> QED
      BY <1>17, <3>1, Zenon DEF Quiet
  <2>2. kind # "Persistent" => \A k \in hook_map : cache[k] = Of(k, store)
    BY <1>1, <2>1, EmptyQueue, Zenon DEF CatchUp, Catching
  <2>3. kind = "Persistent" => \A k \in refreshed : cache[k] = Of(k, monster)
    BY <1>1, <2>1, EmptyQueue, Zenon DEF ReadUp
  <2>4. kind = "NSHTTP" => \A k \in hook_map : cache[k] = seen[k]
    BY <1>1, <2>1, EmptyQueue, Zenon DEF FollowUp, Following
  <2>5. kind = "NSHTTP" /\ ~flush_closure /\ announced => monster = store
    BY <1>1, <2>1, EmptyQueue, Zenon DEF FlushUp, PlainTypes
  <2> QED
    BY <2>2, <2>3, <2>4, <2>5, Zenon
<1>18. CacheIsFresh
  BY <1>17, Zenon DEF CacheIsFresh, Tracked
<1>19. SubscribersKnow /\ BackingStoreKeepsUp
  <2>1. kind = "NSHTTP" => kind # "Persistent"
    OBVIOUS
  <2> QED
    BY <1>17, <2>1, Zenon DEF SubscribersKnow, BackingStoreKeepsUp
<1> QED
  BY <1>1, <1>8, <1>10, <1>11, <1>12, <1>13, <1>15, <1>16, <1>18, <1>19, Zenon DEF CookieInv

(* The store, the cache of observed cookies, the subscribers and the        *)
(* CookieMonster agree when nothing is on its way (CookieStoreIOS,          *)
(* CookieStoreIOSPersistent): no change is lost, whatever the order in      *)
(* which changes, their notifications, WebKit's answers, cache updates and  *)
(* flushes happen.                                                          *)
THEOREM CookiesAgree == CookieSpec => []CookieInv
<1>1. CookieInit => CookieIndInv
  BY CookieInitHolds
<1>2. CookieIndInv /\ [CookieNext]_<<cookieStoreVars, kind>> => CookieIndInv'
  BY CookieNextHolds
<1>3. CookieIndInv => CookieInv
  BY CookieIndInvImplies
<1> QED
  BY <1>1, <1>2, <1>3, PTL DEF CookieSpec

=============================================================================
