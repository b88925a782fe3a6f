--------------------------- MODULE LiveView_proofs ---------------------------
(***************************************************************************)
(* Proofs about LiveView, for any number of writes, log lines, losses and  *)
(* any capacity of the channels: the types, the life of a client's channel *)
(* and what an unmounted page leaves behind.                               *)
(***************************************************************************)
EXTENDS LiveView, TLAPS

ServerTypes ==
    /\ clients \in SUBSET Conns
    /\ closed \in [Conns -> BOOLEAN]
    /\ handler \in [Conns -> {"none", "register", "serve", "unregister", "gone"}]

PageTypes ==
    /\ alive \in [Conns -> BOOLEAN]
    /\ page \in {"open", "closed"}
    /\ sock \in Conns
    /\ timer \in BOOLEAN

\* Every connection a page opens has a number.
LEMMA ConnsNumbers ==
    /\ 1 \in Conns
    /\ Conns \subseteq Nat
    /\ \A c \in Conns : c < MaxLosses + 1 => c + 1 \in Conns
  BY LiveViewAssumption DEF Conns

-----------------------------------------------------------------------------
(* The channels of the clients.                                             *)

LEMMA ChannelInit == Init => ServerTypes /\ ChannelInv
  BY DEF Init, ServerTypes, ChannelInv

LEMMA ChannelStep ==
  ASSUME ServerTypes, ChannelInv, [Next]_vars
  PROVE  ServerTypes' /\ ChannelInv'
<1> USE DEF ServerTypes, ChannelInv
<1>1. ASSUME UNCHANGED serverVars PROVE ServerTypes' /\ ChannelInv'
  BY <1>1 DEF serverVars
<1>2. ASSUME UNCHANGED <<closed, clients, handler>>
      PROVE  ServerTypes' /\ ChannelInv'
  BY <1>2
<1>3. CASE Write \/ WriteFailed \/ Announce \/ Log
  BY <1>1, <1>3 DEF Write, WriteFailed, Announce, Log
<1>4. CASE Fanout
  BY <1>2, <1>4 DEF Fanout
<1>5. ASSUME NEW c \in Conns, Upgrade(c) PROVE ServerTypes' /\ ChannelInv'
  BY <1>5 DEF Upgrade
<1>6. ASSUME NEW c \in Conns, Register(c) PROVE ServerTypes' /\ ChannelInv'
  BY <1>6 DEF Register
<1>7. ASSUME NEW c \in Conns, Serve(c) PROVE ServerTypes' /\ ChannelInv'
  <2>1. UNCHANGED <<closed, clients>> /\ handler[c] = "serve"
    BY <1>7 DEF Serve
  <2>2. UNCHANGED handler \/ handler' = [handler EXCEPT ![c] = "unregister"]
    BY <1>7 DEF Serve
  <2> QED BY <2>1, <2>2
<1>8. ASSUME NEW c \in Conns, Unregister(c) PROVE ServerTypes' /\ ChannelInv'
  BY <1>8 DEF Unregister
<1>9. ASSUME NEW c \in Conns, Notice(c) PROVE ServerTypes' /\ ChannelInv'
  BY <1>9 DEF Notice
<1>10. ASSUME NEW c \in Conns, Lose(c) PROVE ServerTypes' /\ ChannelInv'
  BY <1>1, <1>10 DEF Lose
<1>11. CASE PageStep \/ Unmount
  BY <1>1, <1>11 DEF PageStep, Open, Message, OnClose, Reconnect, Read, Land, Unmount
<1>12. CASE UNCHANGED vars
  BY <1>1, <1>12 DEF vars
<1> QED
  BY <1>3, <1>4, <1>5, <1>6, <1>7, <1>8, <1>9, <1>10, <1>11, <1>12
  DEF Next, HandlerStep

(* The hub neither sends on a closed channel nor closes one twice.          *)
THEOREM NoPanic == Spec => []NoUseAfterClose
<1>1. ServerTypes /\ ChannelInv => NoUseAfterClose
  BY DEF ServerTypes, ChannelInv, NoUseAfterClose
<1> QED BY <1>1, ChannelInit, ChannelStep, PTL DEF Spec

-----------------------------------------------------------------------------
(* The sockets of the page.                                                 *)

PageInv == PageTypes /\ SocketInv /\ UnmountedStaysGone

LEMMA PageInit == Init => PageInv
  BY ConnsNumbers DEF Init, PageInv, PageTypes, SocketInv, UnmountedStaysGone

LEMMA PageStepKeeps ==
  ASSUME PageInv, [Next]_vars
  PROVE  PageInv'
<1> USE DEF PageInv, PageTypes, SocketInv, UnmountedStaysGone
<1>1. ASSUME UNCHANGED <<alive, page, sock, timer>> PROVE PageInv'
  BY <1>1
<1>2. CASE Write \/ WriteFailed \/ Announce \/ Log \/ Fanout
  BY <1>1, <1>2 DEF Write, WriteFailed, Announce, Log, Fanout, netVars, pageVars
<1>3. ASSUME NEW c \in Conns, Upgrade(c) \/ Register(c) \/ Notice(c) PROVE PageInv'
  BY <1>1, <1>3 DEF Upgrade, Register, Notice, netVars, pageVars
<1>4. ASSUME NEW c \in Conns, Serve(c) PROVE PageInv'
  BY <1>1, <1>4 DEF Serve, pageVars
<1>5. ASSUME NEW c \in Conns, Unregister(c) \/ Lose(c) PROVE PageInv'
  <2>1. alive' = [alive EXCEPT ![c] = FALSE] /\ UNCHANGED <<page, sock, timer>>
    BY <1>5 DEF Unregister, Lose, pageVars
  <2> QED BY <2>1
<1>6. CASE Open \/ Message \/ Read \/ Land
  BY <1>1, <1>6 DEF Open, Message, Read, Land, netVars, pageVars
<1>7. CASE OnClose
  BY <1>7 DEF OnClose
<1>8. CASE Reconnect
  <2>1. sock + 1 \in Conns /\ sock + 1 # sock
    BY <1>8, ConnsNumbers DEF Reconnect
  <2>2. /\ timer /\ timer' = FALSE /\ sock' = sock + 1 /\ page' = page
        /\ alive' = [alive EXCEPT ![sock + 1] = TRUE]
    BY <1>8 DEF Reconnect
  <2>3. \A c \in Conns : ~alive[c]
    BY <2>2
  <2>4. page = "open"
    BY <2>2
  <2> QED BY <2>1, <2>2, <2>3, <2>4
<1>9. CASE Unmount
  BY <1>9 DEF Unmount
<1>10. CASE UNCHANGED vars
  BY <1>1, <1>10 DEF vars, netVars, pageVars
<1> QED
  BY <1>2, <1>3, <1>4, <1>5, <1>6, <1>7, <1>8, <1>9, <1>10
  DEF Next, HandlerStep, PageStep

(* An inspector that was left keeps no timer and no connection.             *)
THEOREM StaysGone == Spec => []UnmountedStaysGone
<1>1. PageInv => UnmountedStaysGone
  BY DEF PageInv
<1> QED BY <1>1, PageInit, PageStepKeeps, PTL DEF Spec
=============================================================================
