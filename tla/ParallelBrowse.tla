--------------------------- MODULE ParallelBrowse ---------------------------
(***************************************************************************)
(* The request dispatch that parallel_browse.py patches into roonapi: each  *)
(* call registers a Future under its request id, and the patched on_message *)
(* of the socket resolves it.  Threads call, give up after a timeout and    *)
(* are answered late; the library sends requests of its own through the     *)
(* same socket and the same ids; the socket drops and is replaced.          *)
(***************************************************************************)
EXTENDS Naturals, Functions

CONSTANTS Call,      \* calls of browse_browse and browse_load
          Lib,       \* requests the library makes for itself
          None,      \* no reply being handled
          MaxSocket  \* bound: sockets, one after the other

ASSUME BrowseAssumption ==
  /\ Call \cap Lib = {} /\ None \notin Call \cup Lib
  /\ MaxSocket \in Nat \ {0}

VARIABLES
  pc,         \* where each call is
  sock,       \* the socket each call took from the api, 0 before
  id,         \* each call's request id
  result,     \* what each call's Future holds, and then returns
  pending,    \* request id -> the call whose Future waits for it
  late,       \* recently_timed_out: request id -> the call that timed out
  socket,     \* the api's socket
  connected,
  patched,    \* patched_socket_ids
  nextId,     \* the request counter, of the socket
  wire,       \* replies under way on the socket
  libSent,    \* the library's requests sent
  handling,   \* the reply on_message has claimed a Future for
  swallowed   \* <<request, call, socket>>: replies to the library that
              \* on_message kept from it, and the call they were taken for

calls == <<pc, sock, id, result>>
table == <<pending, late>>
link == <<socket, connected, patched>>
traffic == <<nextId, wire, libSent>>
vars == <<calls, table, link, traffic, handling, swallowed>>

Stages == {"idle", "entered", "waiting", "expired", "returned", "none"}
Results == {"none", "own", "foreign", "undecodable"}
Ids == Nat \ {0}
Replies == [id : Ids, to : Call \cup Lib]

TypeOK ==
  /\ pc \in [Call -> Stages]
  /\ sock \in [Call -> 0 .. MaxSocket]
  /\ id \in [Call -> Nat]
  /\ result \in [Call -> Results]
  /\ DOMAIN pending \subseteq Ids /\ \A i \in DOMAIN pending : pending[i] \in Call
  /\ DOMAIN late \subseteq Nat /\ \A i \in DOMAIN late : late[i] \in Call
  /\ socket \in 1 .. MaxSocket /\ connected \in BOOLEAN
  /\ patched \subseteq 1 .. MaxSocket
  /\ nextId \in Ids
  /\ wire \subseteq Replies
  /\ libSent \subseteq Lib
  /\ swallowed \subseteq Lib \X Call \X (1 .. MaxSocket)
  /\ handling \in {None} \cup [call : Call, to : Call \cup Lib]

Init ==
  /\ pc = [c \in Call |-> "idle"]
  /\ sock = [c \in Call |-> 0]
  /\ id = [c \in Call |-> 0]
  /\ result = [c \in Call |-> "none"]
  /\ pending = <<>>
  /\ late = <<>>
  /\ socket = 1
  /\ connected = TRUE
  /\ patched = {1}
  /\ nextId = 1
  /\ wire = {}
  /\ libSent = {}
  /\ handling = None
  /\ swallowed = {}

Advance(c, from, to) == pc[c] = from /\ pc' = [pc EXCEPT ![c] = to]

Dropped(f, i) == Restrict(f, DOMAIN f \ {i})

\* The entry of id i, with which another call's goes where ids have restarted.
Put(f, i, c) == [j \in DOMAIN f \cup {i} |-> IF j = i THEN c ELSE f[j]]

-----------------------------------------------------------------------------
(* _send_and_wait.                                                          *)

\* The hook is put on the api's current socket, once.
EnsureSocketPatched(c) ==
  /\ sock' = [sock EXCEPT ![c] = socket]
  /\ patched' = patched \cup {socket}

\* The socket is patched, and must be connected.
Enter(c) ==
  /\ Advance(c, "idle", IF connected THEN "entered" ELSE "none")
  /\ EnsureSocketPatched(c)
  /\ UNCHANGED <<id, result, table, socket, connected, traffic, handling,
                 swallowed>>

\* The request goes out and its Future is registered, under one lock.
Send(c) ==
  /\ sock[c] = socket /\ connected
  /\ Advance(c, "entered", "waiting")
  /\ id' = [id EXCEPT ![c] = nextId]
  /\ pending' = Put(pending, nextId, c)
  /\ wire' = wire \cup {[id |-> nextId, to |-> c]}
  /\ nextId' = nextId + 1
  /\ UNCHANGED <<sock, result, late, link, libSent, handling, swallowed>>

\* send_request returns False on a socket that has dropped.
SendFails(c) ==
  /\ sock[c] # socket \/ ~connected
  /\ Advance(c, "entered", "none")
  /\ UNCHANGED <<sock, id, result, table, link, traffic, handling, swallowed>>

Returns(c) ==
  /\ result[c] \in {"own", "foreign"}
  /\ Advance(c, "waiting", "returned")
  /\ UNCHANGED <<sock, id, result, table, link, traffic, handling, swallowed>>

\* A Future that holds an exception: the call returns None.
ReturnsNone(c) ==
  /\ result[c] = "undecodable"
  /\ Advance(c, "waiting", "none")
  /\ pending' = Dropped(pending, id[c])
  /\ UNCHANGED <<sock, id, result, late, link, traffic, handling, swallowed>>

\* future.result raises TimeoutError ...
Expire(c) ==
  /\ result[c] = "none"
  /\ Advance(c, "waiting", "expired")
  /\ UNCHANGED <<sock, id, result, table, link, traffic, handling, swallowed>>

\* The request counts as late, and those that timed out a minute ago do not.
RecordTimeout(c) ==
  \E fresh \in SUBSET DOMAIN late : late' = Put(Restrict(late, fresh), id[c], c)

\* ... and the handler takes the lock, by which time an answer may be there.
GiveUp(c) ==
  /\ Advance(c, "expired", "none")
  /\ pending' = Dropped(pending, id[c])
  /\ RecordTimeout(c)
  /\ UNCHANGED <<sock, id, result, link, traffic, handling, swallowed>>

-----------------------------------------------------------------------------
(* _patched_on_message, on the socket's thread.                             *)

\* The library is not told a reply of its own that was taken for c's.
KeptFrom(m, c) ==
  swallowed' = IF m.to \in Lib THEN swallowed \cup {<<m.to, c, socket>>} ELSE swallowed

\* Mutant: with no call of its id waiting, a reply is taken for a late one.
AnyIsLate(m) ==
  /\ m.id \notin DOMAIN pending /\ DOMAIN late # {}
  /\ \E i \in DOMAIN late : KeptFrom(m, late[i])
  /\ UNCHANGED handling

\* Mutant: the Futures are a queue, answered in the order of the requests.
OldestAwaited(m) ==
  LET first == CHOOSE i \in DOMAIN pending : \A j \in DOMAIN pending : i <= j
  IN /\ m.id \in DOMAIN pending
     /\ handling' = [call |-> pending[first], to |-> m.to]
     /\ KeptFrom(m, pending[first])

\* Under the lock: whose reply is it?  A call's that waits for its id ...
Awaited(m) ==
  /\ m.id \in DOMAIN pending
  /\ handling' = [call |-> pending[m.id], to |-> m.to]
  /\ KeptFrom(m, pending[m.id])

\* ... or a late one, if a call that waited for its id timed out ...
CameLate(m) ==
  /\ m.id \in DOMAIN late \ DOMAIN pending
  /\ KeptFrom(m, late[m.id])
  /\ UNCHANGED handling

\* ... or nobody's here: it goes on to the library.
NotOurs(m) ==
  /\ m.id \notin DOMAIN pending \cup DOMAIN late
  /\ UNCHANGED <<handling, swallowed>>

Claim(m) ==
  /\ pending' = Dropped(pending, m.id)
  /\ late' = Dropped(late, m.id)
  /\ Awaited(m) \/ CameLate(m) \/ NotOurs(m)

OnMessage(m) ==
  /\ handling = None
  /\ m \in wire
  /\ wire' = wire \ {m}
  /\ IF socket \in patched THEN Claim(m)
     ELSE UNCHANGED <<table, handling, swallowed>>
  /\ UNCHANGED <<calls, link, nextId, libSent>>

\* set_result or set_exception, after the lock was released.
Resolve ==
  /\ handling # None
  /\ \E value \in {IF handling.to = handling.call THEN "own" ELSE "foreign",
                   "undecodable"} :
       result' = [result EXCEPT ![handling.call] = value]
  /\ handling' = None
  /\ UNCHANGED <<pc, sock, id, table, link, traffic, swallowed>>

-----------------------------------------------------------------------------
(* roonapi.                                                                 *)

LibSends(l) ==
  /\ connected /\ l \notin libSent
  /\ libSent' = libSent \cup {l}
  /\ wire' = wire \cup {[id |-> nextId, to |-> l]}
  /\ nextId' = nextId + 1
  /\ UNCHANGED <<calls, table, link, handling, swallowed>>

Drops ==
  /\ connected
  /\ connected' = FALSE
  /\ wire' = {}
  /\ UNCHANGED <<calls, table, socket, patched, nextId, libSent, handling,
                 swallowed>>

\* The library's reconnect makes another socket, with a counter of its own, long
\* after the old one's thread has ended: calls that wait, and the ones recorded
\* as timed out, keep ids that are given out again.
Reconnects ==
  /\ ~connected /\ socket < MaxSocket
  /\ handling = None
  /\ connected' = TRUE
  /\ socket' = socket + 1
  /\ nextId' = 1
  /\ UNCHANGED <<calls, table, patched, wire, libSent, handling, swallowed>>

Finished ==
  /\ \A c \in Call : pc[c] \in {"returned", "none"}
  /\ UNCHANGED vars

Next ==
  \/ \E c \in Call : \/ Enter(c) \/ Send(c) \/ SendFails(c) \/ Returns(c)
                     \/ ReturnsNone(c) \/ Expire(c) \/ GiveUp(c)
  \/ \E m \in wire : OnMessage(m)
  \/ \E l \in Lib : LibSends(l)
  \/ Resolve \/ Drops \/ Reconnects \/ Finished

\* A call runs on; its timeout fires.
Fairness ==
  \A c \in Call :
    /\ WF_vars(Send(c) \/ SendFails(c) \/ Returns(c) \/ ReturnsNone(c))
    /\ WF_vars(Expire(c) \/ GiveUp(c))

Spec == Init /\ [][Next]_vars /\ Fairness

-----------------------------------------------------------------------------
(* Properties.                                                              *)

\* c waits for what it sent over a socket there is no more.
Outlived(c) == id[c] # 0 /\ sock[c] # socket /\ result[c] # "own"

\* What a caller sees of its call.
OutcomeOf(c) ==
  CASE pc[c] = "idle" -> "idle"
    [] pc[c] \in {"entered", "waiting", "expired"} ->
         IF Outlived(c) THEN "astray" ELSE "asked"
    [] pc[c] = "returned" -> result[c]
    [] pc[c] = "none" -> "none"

Promise == INSTANCE RequestReply WITH outcome <- [c \in Call |-> OutcomeOf(c)]

\* Every call that asked ends, and with nothing but its own answer or None,
\* unless its socket is replaced while it waits.
Promised == Promise!Spec

\* "chain to the original" (_patched_on_message): a reply to a request of the
\* library reaches the library, whichever calls wait or timed out, but for those
\* of an earlier socket, whose ids are given out again.
NothingSwallowed == \A s \in swallowed : sock[s[2]] < s[3]

=============================================================================
