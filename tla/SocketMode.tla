----------------------------- MODULE SocketMode -----------------------------
(***************************************************************************)
(* Whether a socket blocks: set_blocked(), its three callers bind(),        *)
(* accept() and ~socket(), and write(), which waits or does not.  One       *)
(* descriptor, of which Sockets says who holds it.                          *)
(***************************************************************************)
EXTENDS Integers

CONSTANTS Systems,     \* of "posix", "win32"
          SendBuffer   \* the bytes the kernel keeps for the peer

VARIABLE fd   \* O_NONBLOCK and the other status flags, what was asked for, room, the last write()

FdInit ==
  fd \in [system: Systems, state: {"open"}, nonblocking: {FALSE}, flags: BOOLEAN,
          asked: {"nothing"}, room: {SendBuffer}, written: {"nothing"}]

(* set_blocked(): POSIX keeps of the flags the bit to be taken away; FIONBIO of
   Win32 wants to know whether the socket is not to block.                 *)
set_blocked(f, state) ==
  CASE f.system = "win32"           -> [f EXCEPT !.nonblocking = state]
    [] f.system = "posix" /\ state  -> [f EXCEPT !.flags = FALSE]
    [] f.system = "posix" /\ ~state -> [f EXCEPT !.nonblocking = TRUE]

(* bind(), or accept() with the socket it returns; a failing fcntl() throws. *)
Unblock ==
  /\ fd.state = "open" /\ fd.asked = "nothing"
  /\ fd' = [set_blocked(fd, FALSE) EXCEPT !.asked = "not to block"]

(* send() takes what it has room for, waits or fails; the code that Win32 gives
   for a socket that would block is not EAGAIN.                            *)
write(bytes) ==
  /\ fd.state = "open"
  /\ \/ /\ fd.room > 0
        /\ \E n \in 1..fd.room : n <= bytes /\ fd' = [fd EXCEPT !.room = @ - n, !.written = "bytes"]
     \/ /\ fd.room = 0 /\ fd.nonblocking
        /\ fd' = [fd EXCEPT !.written = IF fd.system = "posix" THEN "data_not_ready" ELSE "io_error"]
     \/ /\ fd.room = 0 /\ ~fd.nonblocking
        /\ fd' = [fd EXCEPT !.state = "waits"]
     \/ /\ fd' = [fd EXCEPT !.written = "io_error"]   \* the connection is lost

(* The peer takes what was sent, and a waiting write() goes on.            *)
PeerReads ==
  /\ fd.state \in {"open", "waits"} /\ fd.room < SendBuffer
  /\ fd' = [fd EXCEPT !.room = SendBuffer, !.state = "open"]

(* ~socket(): the mode it is closed in is kept here to be looked at.       *)
CloseBlocked ==
  /\ fd.state = "open"
  /\ fd' = [set_blocked(fd, TRUE) EXCEPT !.asked = "to block", !.state = "closed"]

FdNext == Unblock \/ (\E bytes \in 1..SendBuffer : write(bytes)) \/ PeerReads \/ CloseBlocked

-----------------------------------------------------------------------------
(* The input/output thread of a server serves all its clients, and so must not
   wait for one of them: write() to a socket that accept() returned never waits
   on POSIX.  On Win32 it does, see set_blocked().                         *)
NeverWaits == fd.system = "posix" /\ fd.asked = "not to block" => fd.state # "waits"

(* "block the socket" and "set non-blocking" (socket.cpp:136, 187): a socket is
   in the mode that set_blocked() was asked for.                           *)
BlockedAsAsked ==
  /\ fd.asked = "to block" => ~fd.nonblocking
  /\ fd.asked = "not to block" => fd.nonblocking
=============================================================================
