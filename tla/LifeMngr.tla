------------------------------ MODULE LifeMngr ------------------------------
(***************************************************************************)
(* The shutdown of a User VM and of the Service VM (S5): life_mngr in both *)
(* (misc/life_mngr/life_mngr.c), and the device model between them, which  *)
(* passes messages from a virtual UART to a socket and back                *)
(* (devicemodel/core/pm_vuart.c).                                          *)
(*                                                                         *)
(* An operator in the User VM asks it to shut down: the Service VM is told *)
(* and acknowledges, and both power off.  Or the Service VM stops the User *)
(* VM.  The lines of the UART lose text; the User VM polls them, once a    *)
(* second, and sends a request again that was not acknowledged.            *)
(*                                                                         *)
(* faults is what the environment of a behaviour does, and does not change:*)
(* "late", a poll comes before an answer that is on its way; "window", it  *)
(* meets the operator's thread between two statements; "both", operator    *)
(* and Service VM ask at once; "noise", text to the User VM is lost;       *)
(* "fail", the User VM cannot send an acknowledgement.                     *)
(***************************************************************************)
EXTENDS Naturals, Sequences

CONSTANTS
    TRY_SEND_CNT,   \* how often a request is sent again
    MaxLost,        \* bound on the requests of the User VM that are lost
    MaxRequests,    \* bound on the requests of the operator
    Cap,            \* messages that the UART holds for the User VM
    LifeFaults           \* the choices of faults

ASSUME LifeMngrAssumption == TRY_SEND_CNT \in Nat /\ Cap \in Nat

VARIABLES
    faults,
    shutdown_state,  \* of life_mngr in the User VM
    retry,           \* of listener_fn_to_sos
    listener,        \* where it is: "poll", "handle", "off"
    buf,             \* what it received: "shutdown", "acked", "other", "none"
    operator,        \* where listener_fn_to_operator is
    requests,        \* how many requests came
    toDm, toUos,     \* the messages on the two lines of the UART
    toSos, offset,   \* the records on the socket, and the bytes read of the first
    toLink,          \* the message on the way back
    sos,             \* sos_socket_thread: "read", or "closed" after the trigger
    asked,           \* the operator's request was accepted and sent
    stopped,         \* the Service VM sent its command
    lost

uos == <<shutdown_state, retry, listener, buf>>
lines == <<toDm, toUos>>
socket == <<toSos, offset, toLink, sos>>
lifevars == <<uos, operator, requests, lines, socket, asked, stopped, lost, faults>>

CMD_LEN == 16      \* pm_monitor_loop writes records of this length
READ_LEN == 9      \* sos_socket_thread reads sizeof(SHUTDOWN_CMD)

S5Init ==
    /\ faults \in LifeFaults
    /\ shutdown_state = "REQ_WAITING" /\ retry = TRY_SEND_CNT /\ listener = "poll" /\ buf = "none"
    /\ operator = "idle" /\ requests = 0 /\ toDm = <<>> /\ toUos = <<>>
    /\ toSos = <<>> /\ offset = 0 /\ toLink = <<>> /\ sos = "read"
    /\ asked = FALSE /\ stopped = FALSE /\ lost = 0

Spoil(q) == IF Len(q) > 1 THEN [Tail(q) EXCEPT ![1] = "other"] ELSE Tail(q)

-----------------------------------------------------------------------------
(* listener_fn_to_operator: a request is refused unless shutdown_state is  *)
(* REQ_WAITING; the test and the store are not one step.                   *)
Requested(from, to) == listener # "off" /\ operator = from /\ operator' = to
op_request ==
    /\ requests < MaxRequests /\ requests' = requests + 1
    /\ "both" \in faults \/ ~stopped
    /\ "window" \in faults \/ listener = "poll"
    /\ Requested("idle", IF shutdown_state = "REQ_WAITING" THEN "checked" ELSE "idle")
    /\ UNCHANGED <<uos, lines, socket, asked, stopped, lost, faults>>
op_claim ==
    /\ Requested("checked", "claimed") /\ shutdown_state' = "REQ_FROM_UOS"
    /\ UNCHANGED <<retry, listener, buf, requests, lines, socket, asked, stopped, lost, faults>>
op_send ==
    /\ \/ /\ Requested("claimed", "sent") /\ toDm' = Append(toDm, "shutdown") /\ asked' = TRUE
          /\ UNCHANGED shutdown_state
       \/ /\ Requested("claimed", "idle") /\ shutdown_state' = "REQ_WAITING"
          /\ UNCHANGED <<toDm, asked>>
    /\ UNCHANGED <<retry, listener, buf, requests, toUos, socket, stopped, lost, faults>>
op_wait ==
    /\ Requested("sent", "idle") /\ shutdown_state' = "ACK_WAITING"
    /\ UNCHANGED <<retry, listener, buf, requests, lines, socket, asked, stopped, lost, faults>>

(* listener_fn_to_sos, once a second: receive_message takes up to CMD_LEN  *)
(* bytes, which may hold the start of the next message.  The command of    *)
(* vm_stop_handler is shorter than that, records are not.                  *)
receive_message ==
    /\ listener = "poll" /\ listener' = "handle"
    /\ "late" \in faults \/ (toDm = <<>> /\ toSos = <<>> /\ toLink = <<>>)
    /\ "window" \in faults \/ operator = "idle"
    /\ IF toUos = <<>> THEN buf' = "none" /\ UNCHANGED toUos
       ELSE /\ buf' = Head(toUos)
            /\ toUos' = IF Head(toUos) = "shutdown" THEN Spoil(toUos) ELSE Tail(toUos)
    /\ UNCHANGED <<shutdown_state, retry, operator, requests, toDm, socket, asked, stopped, lost, faults>>

Handle(next) == listener = "handle" /\ listener' = next /\ buf' = "none"
(* In these states the command of the Service VM is acknowledged and       *)
(* followed.                                                               *)
obey ==
    /\ shutdown_state \in {"REQ_WAITING", "REQ_FROM_SOS"} /\ buf = "shutdown"
    /\ shutdown_state' = "REQ_FROM_SOS"
    /\ \/ Handle("off") /\ toDm' = Append(toDm, "acked")
       \/ "fail" \in faults /\ Handle("poll") /\ UNCHANGED toDm
    /\ UNCHANGED <<retry, operator, requests, toUos, socket, asked, stopped, lost, faults>>
acknowledged ==
    /\ shutdown_state = "ACK_WAITING" /\ buf = "acked" /\ Handle("off")
    /\ UNCHANGED <<shutdown_state, retry, operator, requests, lines, socket, asked, stopped, lost, faults>>
(* Mutant: after the last attempt the next request has none. *)
resendKeepsCount ==
    /\ shutdown_state = "ACK_WAITING" /\ buf # "acked" /\ Handle("poll")
    /\ IF retry > 0
         THEN /\ retry' = retry - 1 /\ toDm' = Append(toDm, "shutdown") /\ UNCHANGED shutdown_state
         ELSE shutdown_state' = "REQ_WAITING" /\ UNCHANGED <<retry, toDm>>
    /\ UNCHANGED <<operator, requests, toUos, socket, asked, stopped, lost, faults>>
(* Otherwise the request is sent again, until there were enough attempts.  *)
resend ==
    /\ shutdown_state = "ACK_WAITING" /\ buf # "acked" /\ Handle("poll")
    /\ IF retry > 0
         THEN /\ retry' = retry - 1 /\ UNCHANGED shutdown_state
              /\ \/ toDm' = Append(toDm, "shutdown") /\ UNCHANGED lost
                 \/ lost < MaxLost /\ lost' = lost + 1 /\ UNCHANGED toDm
         ELSE /\ retry' = TRY_SEND_CNT /\ shutdown_state' = "REQ_WAITING"
              /\ UNCHANGED <<toDm, lost>>
    /\ UNCHANGED <<operator, requests, toUos, socket, asked, stopped, faults>>
ignore ==
    /\ \/ shutdown_state = "REQ_FROM_UOS"
       \/ shutdown_state \in {"REQ_WAITING", "REQ_FROM_SOS"} /\ buf # "shutdown"
    /\ Handle("poll")
    /\ UNCHANGED <<shutdown_state, retry, operator, requests, lines, socket, asked, stopped, lost, faults>>

-----------------------------------------------------------------------------
(* pm_monitor_loop, in the device model: the UART first.  It reads up to   *)
(* CMD_LEN bytes, and what it has of the next message spoils that.         *)
forward_to_sos ==
    /\ toDm # <<>> /\ toDm' = Spoil(toDm)
    /\ toSos' = IF sos = "read" THEN Append(toSos, Head(toDm)) ELSE toSos
    /\ UNCHANGED <<uos, operator, requests, toUos, offset, toLink, sos, asked, stopped, lost, faults>>
(* A socket that is closed is always readable: records of nothing.         *)
forward_to_uos ==
    /\ toDm = <<>> /\ (toLink # <<>> \/ sos = "closed")
    /\ toLink' = IF toLink = <<>> THEN <<>> ELSE Tail(toLink)
    /\ Len(toUos) < Cap
    /\ toUos' = Append(toUos, IF toLink = <<>> THEN "other" ELSE Head(toLink))
    /\ UNCHANGED <<uos, operator, requests, toDm, toSos, offset, sos, asked, stopped, lost, faults>>
(* acrnctl stop: the command goes out once.                                *)
vm_stop_handler ==
    /\ ~stopped /\ stopped' = TRUE /\ Len(toUos) < Cap
    /\ "both" \in faults \/ requests = 0
    /\ toUos' = Append(toUos, "shutdown")
    /\ UNCHANGED <<uos, operator, requests, toDm, socket, asked, lost, faults>>

(* sos_socket_thread, in the Service VM, reads the stream of records in    *)
(* pieces of READ_LEN; a request is seen at the start of a piece.  After   *)
(* the acknowledgement it triggers the shutdown and closes the socket.     *)
sos_socket_thread ==
    /\ sos = "read" /\ toSos # <<>>
    /\ IF offset = 0 /\ Head(toSos) = "shutdown"
         THEN /\ toLink' = Append(toLink, "acked") /\ sos' = "closed"
              /\ toSos' = <<>> /\ UNCHANGED offset
         ELSE LET piece == IF CMD_LEN * Len(toSos) - offset < READ_LEN
                           THEN CMD_LEN * Len(toSos) - offset ELSE READ_LEN IN
              /\ offset' = (offset + piece) % CMD_LEN
              /\ toSos' = IF offset + piece < CMD_LEN THEN toSos ELSE Tail(toSos)
              /\ UNCHANGED <<toLink, sos>>
    /\ UNCHANGED <<uos, operator, requests, lines, asked, stopped, lost, faults>>

(* The UART loses part of a message, and the rest means nothing.           *)
lose_to_dm ==
    /\ lost < MaxLost /\ lost' = lost + 1 /\ toDm # <<>> /\ Head(toDm) = "shutdown"
    /\ toDm' = [toDm EXCEPT ![1] = "other"]
    /\ UNCHANGED <<uos, operator, requests, toUos, socket, asked, stopped, faults>>
lose_to_uos ==
    /\ "noise" \in faults /\ toUos # <<>> /\ Head(toUos) # "other"
    /\ toUos' = [toUos EXCEPT ![1] = "other"]
    /\ UNCHANGED <<uos, operator, requests, toDm, socket, asked, stopped, lost, faults>>

Operator == op_claim \/ op_send \/ op_wait
Listener == receive_message \/ obey \/ acknowledged \/ resend \/ ignore
Monitor == forward_to_sos \/ forward_to_uos
S5Next == \/ op_request \/ Operator \/ Listener \/ Monitor
          \/ vm_stop_handler \/ sos_socket_thread \/ lose_to_dm \/ lose_to_uos
(* The threads run; losses and requests need not come.                     *)
S5Fairness == /\ WF_lifevars(Operator) /\ WF_lifevars(Listener)
              /\ WF_lifevars(Monitor) /\ WF_lifevars(sos_socket_thread)
S5Spec == S5Init /\ [][S5Next]_lifevars /\ S5Fairness

-----------------------------------------------------------------------------
(* The User VM powers off only on the command of the Service VM or on its  *)
(* acknowledgement, the Service VM triggers its shutdown only on a request *)
(* of the operator, and the attempts are counted for one request.          *)
LifeMngrInv ==
    /\ retry \in 0..TRY_SEND_CNT /\ offset \in 0..CMD_LEN - 1 /\ Len(toUos) <= Cap
    /\ shutdown_state \in {"REQ_WAITING", "ACK_WAITING", "REQ_FROM_SOS", "REQ_FROM_UOS"}
    /\ listener = "off" => stopped \/ sos = "closed"
    /\ sos = "closed" => asked
    /\ shutdown_state \in {"REQ_WAITING", "REQ_FROM_UOS"} /\ listener # "off" => retry = TRY_SEND_CNT

(* A User VM that was asked to power off, by its operator or by the        *)
(* Service VM, does, although up to TRY_SEND_CNT requests get lost: the    *)
(* Service VM never goes down alone (enable_s5.rst: "the User VM must be   *)
(* shut down before powering off the Service VM").                         *)
S5Waits == faults = {} /\ (asked \/ stopped) /\ listener # "off"
PowersOff == []<>~S5Waits
=============================================================================
