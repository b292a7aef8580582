------------------------------ MODULE TcpClient ------------------------------
(***************************************************************************)
(* struct tcp_client_t (implementations/posix/tcp-client.c) and the        *)
(* descriptors of the process: a socket that is connected again after it   *)
(* was lost, the events that watch it, and the timer of the next try.  The *)
(* rest of the process opens and closes descriptors as it likes; the       *)
(* system gives out the lowest number that is free.                        *)
(*                                                                         *)
(* The actions of the connection are parts of those of its users (module   *)
(* RtuTcpClient); it is started again only after it was stopped, and the   *)
(* reconnection delay is not set to zero.                                  *)
(***************************************************************************)
EXTENDS Naturals, Sequences

CONSTANTS Fd,        \* the numbers descriptors may have
          MaxBreaks, \* bound: connections that break
          MaxStops   \* bound: calls of tcp_client_stop_connection

ASSUME FdAssumption == Fd \subseteq Nat \ {0}
ASSUME BreaksAssumption == MaxBreaks \in Nat /\ MaxStops \in Nat

NoFd == 0

VARIABLES
    files,      \* the process's descriptors: whose is each number?
    sockFd,     \* sock_fd
    readFd,     \* what sock_event_read watches
    writeEvent, \* is sock_event_write pending?
    state,      \* tcp_client_t::state
    timer,      \* when timer_event is due: never, the first time, again and
                \* again after the delay, or once without one
    assigned,   \* is its callback reconnect, and no longer first_time_connect?
    peerOpen,   \* has the connection not been closed or reset from outside?
    ended,      \* bookkeeping: was the connection lost inside its own notifier, or did
                \* the one try fail that there is after a second start?
    breaks,     \* bookkeeping: connections broken so far
    stops       \* bookkeeping: stops so far

tcpVars == <<files, sockFd, readFd, writeEvent, state, timer, assigned, peerOpen, ended, breaks, stops>>

TcpTypeOK ==
    /\ files \in [Fd -> {"free", "client", "other"}]
    /\ sockFd \in Fd \cup {NoFd} /\ readFd \in Fd \cup {NoFd}
    /\ {writeEvent, assigned, peerOpen, ended} \subseteq BOOLEAN
    /\ state \in {"default", "disconnected", "connected"}
    /\ timer \in {"none", "first", "delayed", "once"}
    /\ breaks \in 0..MaxBreaks /\ stops \in 0..MaxStops

\* tcp_client_new and tcp_client_start_connection.
TcpInit ==
    /\ files = [f \in Fd |-> "free"]
    /\ sockFd = NoFd /\ readFd = NoFd /\ writeEvent = FALSE
    /\ state = "disconnected" /\ timer = "first" /\ assigned = FALSE
    /\ peerOpen = FALSE /\ ended = FALSE /\ breaks = 0 /\ stops = 0

-----------------------------------------------------------------------------
\* The number the next descriptor gets, if there is one.
NextFd == {f \in Fd : files[f] = "free" /\ \A g \in Fd : g < f => files[g] # "free"}

Closed(f) == IF f = NoFd THEN files ELSE [files EXCEPT ![f] = "free"]

\* Mutation of Unconnect: the socket is left open.
UnconnectOpen ==
    /\ readFd' = NoFd /\ writeEvent' = FALSE
    /\ UNCHANGED <<files, sockFd>>
    /\ peerOpen' = FALSE

\* do_unconnect: the events are freed and the number in sock_fd is closed, but
\* it is not forgotten.
Unconnect ==
    /\ readFd' = NoFd /\ writeEvent' = FALSE
    /\ files' = Closed(sockFd) /\ UNCHANGED sockFd
    /\ peerOpen' = FALSE

\* From a read or a write that failed: do_unconnect, start_reconnect_timer.
Lose ==
    /\ Unconnect
    /\ state' = "disconnected"
    /\ timer' = "delayed" /\ assigned' = TRUE
    /\ UNCHANGED <<ended, breaks, stops>>

\* Mutation of Connect: whatever is in sock_fd is closed first.
ConnectClosesFirst(f) ==
    /\ timer # "none" /\ f \in NextFd
    /\ files' = [Closed(sockFd) EXCEPT ![f] = "client"] /\ sockFd' = f
    /\ readFd' = f /\ writeEvent' = TRUE
    /\ state' = "connected" /\ timer' = "none"
    /\ peerOpen' = TRUE
    /\ UNCHANGED <<assigned, ended, breaks, stops>>

\* do_connect succeeds, and the timer is deleted by reconnect or
\* first_time_connect.
Connect(f) ==
    /\ timer # "none" /\ f \in NextFd
    /\ files' = [files EXCEPT ![f] = "client"] /\ sockFd' = f
    /\ readFd' = f /\ writeEvent' = TRUE
    /\ state' = "connected" /\ timer' = "none"
    /\ peerOpen' = TRUE
    /\ UNCHANGED <<assigned, ended, breaks, stops>>

\* Mutation of FailedTimer: first_time_connect, too, leaves the timer as it is.
FailedTimerAsIs == /\ timer' = IF timer = "delayed" THEN "delayed" ELSE "none"
                   /\ ended' = (assigned /\ timer = "once")
                   /\ assigned' = TRUE

\* The timer after a try that failed: first_time_connect starts it anew, with
\* the delay; reconnect leaves it as it is, and libevent runs a persistent timer
\* again only if it has a delay.
FailedTimer == /\ timer' = IF ~assigned THEN "delayed"
                           ELSE IF timer = "once" THEN "none" ELSE timer
               /\ ended' = (assigned /\ timer = "once")
               /\ assigned' = TRUE

\* connect fails, and the new descriptor is closed; or there is none to be had.
ConnectFails ==
    /\ timer # "none"
    /\ sockFd' \in IF NextFd = {} THEN {NoFd} ELSE NextFd
    /\ FailedTimer
    /\ UNCHANGED <<files, readFd, writeEvent, state, peerOpen, breaks, stops>>

\* The notifier of the new connection f writes to it, and that fails: the timer
\* that the write started is deleted when do_connect returns.  (event_assign is
\* then called for a timer that is pending, which libevent leaves undefined.)
ConnectThenLose(f) ==
    /\ timer # "none" /\ f \in NextFd
    /\ breaks < MaxBreaks
    /\ breaks' = breaks + 1
    /\ sockFd' = f
    /\ timer' = "none" /\ assigned' = TRUE /\ ended' = TRUE
    /\ UNCHANGED <<files, readFd, writeEvent, state, peerOpen, stops>>

\* tcp_client_stop_connection.
StopConnection ==
    /\ stops < MaxStops /\ stops' = stops + 1
    /\ timer' = "none"
    /\ Unconnect
    /\ state' = "default" /\ ended' = FALSE
    /\ UNCHANGED <<assigned, breaks>>

\* tcp_client_start_connection, once more: a timer that has become reconnect is
\* a persistent one, but is given no delay now, and so runs once.
StartConnection ==
    /\ state = "default"
    /\ state' = "disconnected"
    /\ timer' = IF assigned THEN "once" ELSE "first"
    /\ UNCHANGED <<files, sockFd, readFd, writeEvent, assigned, peerOpen, ended, breaks, stops>>

\* The rest of the process.
OtherOpens ==
    /\ \E f \in NextFd : files' = [files EXCEPT ![f] = "other"]
    /\ UNCHANGED <<sockFd, readFd, writeEvent, state, timer, assigned, peerOpen, ended, breaks, stops>>
OtherCloses ==
    /\ \E f \in Fd : files[f] = "other" /\ files' = [files EXCEPT ![f] = "free"]
    /\ UNCHANGED <<sockFd, readFd, writeEvent, state, timer, assigned, peerOpen, ended, breaks, stops>>

\* The connection is closed or reset from outside.
PeerCloses ==
    /\ peerOpen /\ breaks < MaxBreaks
    /\ breaks' = breaks + 1
    /\ peerOpen' = FALSE
    /\ UNCHANGED <<files, sockFd, readFd, writeEvent, state, timer, assigned, ended, stops>>

-----------------------------------------------------------------------------
\* No descriptor is lost and no event watches a number that is not the
\* client's: it has a descriptor, the one in sock_fd, when it is connected and
\* at no other time, and with it the read event.  Nothing tries to connect
\* meanwhile, which would overwrite all three, nor after a stop; and as long as
\* it is neither connected nor stopped the next try is due, unless the tries have
\* ended in one of two ways.
OneSocket ==
    /\ {f \in Fd : files[f] = "client"} = IF state = "connected" THEN {sockFd} ELSE {}
    /\ readFd = IF state = "connected" THEN sockFd ELSE NoFd
    /\ writeEvent => state = "connected"
    /\ timer # "none" <=> state = "disconnected" /\ ~ended
    /\ ended => state = "disconnected"

\* What the rest of the process has opened is closed by the rest of the process.
\* There is one exception: when the connection was lost, or a try has failed, or
\* it was stopped before, the number in sock_fd is one that was closed already,
\* and stopping (or freeing) the client closes it again, whoever has it now.
OthersKept ==
    [][\A f \in Fd : files[f] = "other" /\ files'[f] # "other" =>
          \/ OtherCloses
          \/ StopConnection /\ state # "connected" /\ f = sockFd]_tcpVars
=============================================================================
