----------------------------- MODULE Descriptors -----------------------------
(***************************************************************************)
(* The pool of Readme.md: several DVController objects, each in a thread   *)
(* of its own, in one process with one table of descriptors.  The objects  *)
(* share nothing else, but a transport that closes a number it no longer   *)
(* owns takes the descriptor of somebody else away.  open and close of all *)
(* three transports are modelled, packets are not.                         *)
(***************************************************************************)
EXTENDS Integers, FiniteSets

CONSTANTS
  Objects,     \* the DVController objects
  Careful,     \* those whose thread consults isOpen() before open() and close(),
               \* and closes before it destroys
  Numbers,     \* descriptors (handles, on Windows) of the process
  Application, \* the owner of the descriptors that belong to no object
  Nobody

ASSUME DescriptorsAssumption ==
  /\ Careful \subseteq Objects /\ Numbers \subseteq Nat
  /\ Application \notin Objects /\ Nobody \notin Objects \cup {Application}

VARIABLES
  platform,    \* what the library was compiled for
  table,       \* who a descriptor was given to
  m_serial,    \* the transport of each object
  m_open,
  asking,      \* objects whose open waits for the answer to PRODID
  aborted,     \* the object that ended the process, or Nobody
  forgotten,   \* history: descriptors that a failing open did not close
  firstWrong   \* history: the object that first closed what was not its own, and
               \* the kind of its transport and what its open had returned

vars == <<platform, table, m_serial, m_open, asking, aborted, forgotten, firstWrong>>

\* A device that is an address and a port is reached by UDP; Apple has neither.
KindsOf(p) == IF p = "apple" THEN {"dummy"} ELSE {"serial", "udp"}

\* fd is m_fd, m_handle or m_sockFd, with -1 for none; opened is what open returned.
Transport(kind, fd, opened) == [kind |-> kind, fd |-> fd, opened |-> opened]

NoTransport == Transport("none", -1, FALSE)

Transports == [kind : {"none", "serial", "udp", "dummy"}, fd : Numbers \cup {-1}, opened : BOOLEAN]

Nothing == [by |-> Nobody, kind |-> "none", opened |-> FALSE]

Free == {n \in Numbers : table[n] = Nobody}

\* The numbers the next descriptor may have: the lowest one, or any on Windows.
Fresh == IF platform = "windows" THEN Free
         ELSE {n \in Free : \A k \in Free : n <= k}

Init == /\ platform \in {"posix", "windows", "apple"}
        /\ table = [n \in Numbers |-> Nobody]
        /\ m_serial = [o \in Objects |-> NoTransport]
        /\ m_open = [o \in Objects |-> FALSE]
        /\ asking = {} /\ aborted = Nobody
        /\ forgotten = [o \in Objects |-> {}] /\ firstWrong = Nothing
-----------------------------------------------------------------------------
(***************************************************************************)
(* The transports.  An open that fails leaves in its object a transport    *)
(* with one of the numbers below.                                          *)
(***************************************************************************)
\* There is no descriptor, or it is closed again and its number kept.
openSerialFails ==
  {Transport("serial", -1, FALSE)} \cup {Transport("serial", n, FALSE) : n \in Fresh}

\* Before there is a socket, a bad address or port leaves m_sockFd as it was
\* allocated; there is no socket; or bind refuses it.
openUdpFails == {Transport("udp", n, FALSE) : n \in Numbers \cup {-1}}

DummyOpen == {Transport("dummy", -1, FALSE)}

FailedTransports ==
  IF platform = "apple" THEN DummyOpen ELSE openSerialFails \cup openUdpFails

\* The descriptor that a failing open forgets: a port to which low latency is
\* refused (its number is kept), a socket to which bind refuses the address.
ForgottenTransport(n) ==
  IF platform = "windows" THEN {Transport("udp", -1, FALSE)}
  ELSE {Transport("serial", n, FALSE), Transport("udp", -1, FALSE)}

\* ::close, CloseHandle or closesocket of the number of the transport of o.
closeNumber(o) ==
  LET n == m_serial[o].fd
  IN IF n \in Numbers \ Free
       THEN /\ table' = [table EXCEPT ![n] = Nobody]
            /\ forgotten' = [forgotten EXCEPT ![o] = @ \ {n}]
            /\ firstWrong' = IF firstWrong = Nothing /\ table[n] # o
                               THEN [by |-> o, kind |-> m_serial[o].kind,
                                     opened |-> m_serial[o].opened]
                               ELSE firstWrong
       ELSE UNCHANGED <<table, forgotten, firstWrong>>

\* Mutation: the serial port keeps its number.
closeItKeepsNumber(o) ==
  /\ m_serial[o].kind \in {"udp", "dummy"} \/ (m_serial[o].kind = "serial" /\ m_serial[o].fd # -1)
  /\ closeNumber(o)
  /\ UNCHANGED m_serial

\* closeIt.  The serial port asserts that it has a number and forgets it; the
\* socket only tests it, and keeps it.
closeIt(o) ==
  /\ closeNumber(o)
  /\ \/ /\ m_serial[o].kind = "serial" /\ m_serial[o].fd # -1
        /\ m_serial' = [m_serial EXCEPT ![o].fd = -1]
     \/ /\ m_serial[o].kind \in {"udp", "dummy"}
        /\ UNCHANGED m_serial
-----------------------------------------------------------------------------
(***************************************************************************)
(* The objects.                                                            *)
(***************************************************************************)
runs(o) == aborted = Nobody /\ o \notin asking

\* A new transport takes the place of the one in m_serial, which is not closed.
startsOpen(o) == /\ runs(o)
                 /\ o \in Careful => ~m_open[o]
                 /\ m_open' = [m_open EXCEPT ![o] = FALSE]

openFails(o) == /\ startsOpen(o)
                /\ \E t \in FailedTransports : m_serial' = [m_serial EXCEPT ![o] = t]
                /\ UNCHANGED <<platform, table, asking, aborted, forgotten, firstWrong>>

openFailsAndForgets(o) ==
  /\ startsOpen(o)
  /\ platform # "apple"
  /\ \E n \in Fresh :
       /\ \E t \in ForgottenTransport(n) : m_serial' = [m_serial EXCEPT ![o] = t]
       /\ table' = [table EXCEPT ![n] = o]
       /\ forgotten' = [forgotten EXCEPT ![o] = @ \cup {n}]
  /\ UNCHANGED <<platform, asking, aborted, firstWrong>>

open(o) ==
  /\ startsOpen(o)
  /\ \E n \in Fresh, kind \in KindsOf(platform) \ {"dummy"} :
       /\ m_serial' = [m_serial EXCEPT ![o] = Transport(kind, n, TRUE)]
       /\ table' = [table EXCEPT ![n] = o]
  /\ asking' = asking \cup {o}
  /\ UNCHANGED <<platform, aborted, forgotten, firstWrong>>

openIdentified(o) == /\ aborted = Nobody /\ o \in asking
                     /\ asking' = asking \ {o}
                     /\ m_open' = [m_open EXCEPT ![o] = TRUE]
                     /\ UNCHANGED <<platform, table, m_serial, aborted, forgotten, firstWrong>>

\* Mutation: the transport is not closed.
openRefusedLeaks(o) ==
  /\ aborted = Nobody /\ o \in asking
  /\ asking' = asking \ {o}
  /\ UNCHANGED <<platform, table, m_serial, m_open, aborted, forgotten, firstWrong>>

openRefused(o) == /\ aborted = Nobody /\ o \in asking
                  /\ asking' = asking \ {o}
                  /\ closeIt(o)
                  /\ UNCHANGED <<platform, m_open, aborted>>

\* Mutation: m_open is not reset.
closeStaysOpen(o) == /\ runs(o)
                     /\ o \in Careful => m_open[o]
                     /\ closeIt(o)
                     /\ UNCHANGED <<platform, m_open, asking, aborted>>

close(o) == /\ runs(o)
            /\ o \in Careful => m_open[o]
            /\ closeIt(o)
            /\ m_open' = [m_open EXCEPT ![o] = FALSE]
            /\ UNCHANGED <<platform, asking, aborted>>

\* Through a null pointer, or against the assertion.
closeAborts(o) == /\ runs(o)
                  /\ o \in Careful => m_open[o]
                  /\ m_serial[o].kind \in {"none", "serial"} /\ m_serial[o].fd = -1
                  /\ aborted' = o
                  /\ UNCHANGED <<platform, table, m_serial, m_open, asking, forgotten, firstWrong>>

\* The destructors delete the transport and close nothing; another object may be
\* constructed in the place of this one.
destroy(o) == /\ runs(o)
              /\ o \in Careful => ~m_open[o]
              /\ m_serial' = [m_serial EXCEPT ![o] = NoTransport]
              /\ m_open' = [m_open EXCEPT ![o] = FALSE]
              /\ UNCHANGED <<platform, table, asking, aborted, forgotten, firstWrong>>

\* The rest of the process opens files, and closes those that it still has.
ApplicationOpens == /\ aborted = Nobody
                    /\ \E n \in Fresh : table' = [table EXCEPT ![n] = Application]
                    /\ UNCHANGED <<platform, m_serial, m_open, asking, aborted, forgotten,
                                   firstWrong>>

ApplicationCloses ==
  /\ aborted = Nobody
  /\ \E n \in Numbers : table[n] = Application /\ table' = [table EXCEPT ![n] = Nobody]
  /\ UNCHANGED <<platform, m_serial, m_open, asking, aborted, forgotten, firstWrong>>

Next == \/ \E o \in Objects :
             \/ openFails(o) \/ openFailsAndForgets(o) \/ open(o)
             \/ openIdentified(o) \/ openRefused(o)
             \/ close(o) \/ closeAborts(o) \/ destroy(o)
        \/ ApplicationOpens \/ ApplicationCloses

Spec == Init /\ [][Next]_vars
-----------------------------------------------------------------------------
\* An object that is open, or about to be, has a transport that was opened.
Live(o) == m_open[o] \/ o \in asking

TypeOK ==
  /\ platform \in {"posix", "windows", "apple"}
  /\ table \in [Numbers -> Objects \cup {Application, Nobody}]
  /\ m_serial \in [Objects -> Transports]
  /\ m_open \in [Objects -> BOOLEAN] /\ asking \subseteq Objects
  /\ aborted \in Objects \cup {Nobody}
  /\ forgotten \in [Objects -> SUBSET Numbers]
  /\ firstWrong \in [by : Objects, kind : {"serial", "udp"}, opened : BOOLEAN] \cup {Nothing}
  /\ \A o \in Objects : Live(o) => m_serial[o].opened /\ m_serial[o].fd \in Numbers

Owned(o) == {n \in Numbers : table[n] = o}

\* Readme.md: a pool of threads for a pool of devices.  No object of a thread that
\* consults isOpen() is the first to close a descriptor of another object or of the
\* application, and a serial port that was once opened never is: what starts it is
\* a second close of a socket, or a close after an open that failed.
CarelessClosesFirst ==
  firstWrong # Nothing =>
    /\ firstWrong.by \notin Careful
    /\ firstWrong.kind = "serial" => ~firstWrong.opened

\* As long as nobody has, every object of such a thread owns the descriptor of its
\* transport while it is open and none otherwise, but for what its failing opens
\* have forgotten; and it never ends the process.
CarefulOwnsItsDescriptor ==
  \A o \in Careful :
    /\ aborted # o
    /\ firstWrong = Nothing =>
         Owned(o) = forgotten[o] \cup (IF Live(o) THEN {m_serial[o].fd} ELSE {})
=============================================================================
