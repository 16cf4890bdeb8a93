-------------------------- MODULE DescriptorsProofs --------------------------
(***************************************************************************)
(* Theorems about Descriptors, for any number of objects, careful or not,  *)
(* and of descriptors.  Both properties rest on one fact about the time    *)
(* before the first wrong close: a number that its holder believes in is   *)
(* still the holder's.                                                     *)
(***************************************************************************)
EXTENDS Descriptors, TLAPS

\* A transport that was never opened has no number, nor has a stub.
Numberless ==
  \A o \in Objects : m_serial[o].kind \in {"none", "dummy"} => m_serial[o].fd = -1

AskingIsNotOpen == \A o \in asking : ~m_open[o]

Typed == TypeOK /\ Numberless /\ AskingIsNotOpen

\* The serial ports that were opened, and not closed, have their own descriptors.
SerialOwnsItsNumber ==
  firstWrong = Nothing =>
    \A o \in Objects :
      m_serial[o].kind = "serial" /\ m_serial[o].opened /\ m_serial[o].fd # -1 =>
        table[m_serial[o].fd] = o

PoolInv == Typed /\ SerialOwnsItsNumber /\ CarelessClosesFirst /\ CarefulOwnsItsDescriptor

\* The steps of one object.
ObjectStep(o) ==
  \/ openFails(o) \/ openFailsAndForgets(o) \/ open(o)
  \/ openIdentified(o) \/ openRefused(o)
  \/ close(o) \/ closeAborts(o) \/ destroy(o)

\* No number is negative, so that -1 is none of them.
LEMMA NoNumber == -1 \notin Numbers
  BY DescriptorsAssumption, SMT

\* A fresh number belonged to nobody, the kinds are what their names say.
LEMMA FreshIsFree == Fresh \subseteq Free /\ Free \subseteq Numbers
  BY DEF Fresh, Free

\* What a failing open leaves behind is a transport.
LEMMA FailuresAreTransports ==
  /\ FailedTransports \subseteq Transports
  /\ \A n \in Fresh : ForgottenTransport(n) \subseteq Transports
  /\ \A t \in FailedTransports : t.kind \in {"none", "dummy"} => t.fd = -1
  /\ \A n \in Fresh : \A t \in ForgottenTransport(n) : t.kind \in {"serial", "udp"}
  /\ \A t \in FailedTransports : ~t.opened
  /\ \A n \in Fresh : \A t \in ForgottenTransport(n) : ~t.opened
<1>1. \A kind \in {"serial", "udp", "dummy"} : \A fd \in Numbers \cup {-1} :
        Transport(kind, fd, FALSE) \in Transports
  BY DEF Transport, Transports
<1>2. \A n \in Fresh : n \in Numbers
  BY FreshIsFree
<1>3. \A t \in FailedTransports :
        \E kind \in {"serial", "udp", "dummy"}, fd \in Numbers \cup {-1} :
          /\ t = Transport(kind, fd, FALSE)
          /\ kind = "dummy" => fd = -1
  <2>1. \A t \in openSerialFails : \E fd \in Numbers \cup {-1} : t = Transport("serial", fd, FALSE)
    BY <1>2 DEF openSerialFails
  <2>2. \A t \in openUdpFails : \E fd \in Numbers \cup {-1} : t = Transport("udp", fd, FALSE)
    BY DEF openUdpFails
  <2>3. \A t \in DummyOpen : t = Transport("dummy", -1, FALSE)
    BY DEF DummyOpen
  <2>4. QED
    BY <2>1, <2>2, <2>3 DEF FailedTransports
<1>4. \A n \in Fresh : \A t \in ForgottenTransport(n) :
        \E kind \in {"serial", "udp"}, fd \in Numbers \cup {-1} : t = Transport(kind, fd, FALSE)
  BY <1>2 DEF ForgottenTransport
<1>5. ASSUME NEW t \in FailedTransports
      PROVE  t \in Transports /\ (t.kind \in {"none", "dummy"} => t.fd = -1) /\ ~t.opened
  <2>1. PICK kind \in {"serial", "udp", "dummy"}, fd \in Numbers \cup {-1} :
          t = Transport(kind, fd, FALSE) /\ (kind = "dummy" => fd = -1)
    BY <1>3
  <2>2. t.kind = kind /\ t.fd = fd /\ ~t.opened
    BY <2>1 DEF Transport
  <2>3. QED
    BY <1>1, <2>1, <2>2
<1>6. ASSUME NEW n \in Fresh, NEW t \in ForgottenTransport(n)
      PROVE  t \in Transports /\ t.kind \in {"serial", "udp"} /\ ~t.opened
  <2>1. PICK kind \in {"serial", "udp"}, fd \in Numbers \cup {-1} :
          t = Transport(kind, fd, FALSE)
    BY <1>4
  <2>2. t.kind = kind /\ ~t.opened
    BY <2>1 DEF Transport
  <2>3. QED
    BY <1>1, <2>1, <2>2
<1>7. QED
  BY <1>5, <1>6

-----------------------------------------------------------------------------
\* Whoever opens keeps the types and the number of every transport.
LEMMA TypedAfterFailure ==
  ASSUME Typed, NEW o \in Objects, openFails(o) \/ openFailsAndForgets(o)
  PROVE  Typed'
<1>1. \E t \in Transports : /\ m_serial' = [m_serial EXCEPT ![o] = t]
                            /\ t.kind \in {"none", "dummy"} => t.fd = -1
  <2>1. CASE openFails(o)
    BY <2>1, FailuresAreTransports DEF openFails
  <2>2. CASE openFailsAndForgets(o)
    BY <2>2, FailuresAreTransports DEF openFailsAndForgets
  <2>3. QED
    BY <2>1, <2>2
<1>2. /\ m_open' = [m_open EXCEPT ![o] = FALSE] /\ o \notin asking
      /\ UNCHANGED <<platform, asking, aborted, firstWrong>>
  BY DEF openFails, openFailsAndForgets, startsOpen, runs
<1>3. /\ table' \in [Numbers -> Objects \cup {Application, Nobody}]
      /\ forgotten' \in [Objects -> SUBSET Numbers]
  BY FreshIsFree DEF openFails, openFailsAndForgets, Typed, TypeOK
<1>4. TypeOK'
  <2>1. /\ m_serial' \in [Objects -> Transports]
        /\ \A p \in Objects \ {o} : m_serial'[p] = m_serial[p]
    BY <1>1 DEF Typed, TypeOK
  <2>2. /\ m_open' \in [Objects -> BOOLEAN] /\ ~m_open'[o]
        /\ \A p \in Objects \ {o} : m_open'[p] = m_open[p]
    BY <1>2 DEF Typed, TypeOK
  <2>3. \A p \in Objects : Live(p)' => p # o /\ Live(p)
    BY <1>2, <2>2 DEF Live
  <2>4. \A p \in Objects : Live(p)' => m_serial'[p].opened /\ m_serial'[p].fd \in Numbers
    BY <2>1, <2>3 DEF Typed, TypeOK
  <2>5. QED
    BY <1>2, <1>3, <2>1, <2>2, <2>4 DEF Typed, TypeOK
<1>5. QED
  BY <1>1, <1>2, <1>4 DEF Typed, TypeOK, Numberless, AskingIsNotOpen

\* Types survive each of the ends of open, the one that goes on to ask for the identification included.
LEMMA TypedAfterOpen ==
  ASSUME Typed, NEW o \in Objects, open(o)
  PROVE  Typed'
<1>1. PICK n \in Fresh, kind \in KindsOf(platform) \ {"dummy"} :
        /\ m_serial' = [m_serial EXCEPT ![o] = Transport(kind, n, TRUE)]
        /\ table' = [table EXCEPT ![n] = o]
  BY DEF open
<1>2. kind \in {"serial", "udp"} /\ n \in Numbers
  BY FreshIsFree DEF KindsOf
<1>3. /\ m_open' = [m_open EXCEPT ![o] = FALSE] /\ asking' = asking \cup {o}
      /\ UNCHANGED <<platform, aborted, forgotten, firstWrong>>
  BY DEF open, startsOpen
<1>4. TypeOK'
  BY <1>1, <1>2, <1>3 DEF Typed, TypeOK, Live, Transport, Transports
<1>5. QED
  BY <1>1, <1>2, <1>3, <1>4 DEF Typed, TypeOK, Numberless, AskingIsNotOpen, Transport

\* closeIt takes at most the number of its own transport away.
LEMMA TypedAfterCloseIt ==
  ASSUME Typed, NEW o \in Objects, closeIt(o)
  PROVE  /\ table' \in [Numbers -> Objects \cup {Application, Nobody}]
         /\ forgotten' \in [Objects -> SUBSET Numbers]
         /\ firstWrong' \in [by : Objects, kind : {"serial", "udp"}, opened : BOOLEAN]
                              \cup {Nothing}
         /\ m_serial' \in [Objects -> Transports]
         /\ Numberless'
         /\ \A p \in Objects \ {o} : m_serial'[p] = m_serial[p]
<1>1. m_serial[o] \in Transports
  BY DEF Typed, TypeOK
<1>2. m_serial[o].fd \in Numbers => m_serial[o].kind \in {"serial", "udp"}
  BY <1>1, NoNumber DEF Typed, Numberless, Transports
<1>3. /\ table' \in [Numbers -> Objects \cup {Application, Nobody}]
      /\ forgotten' \in [Objects -> SUBSET Numbers]
  BY DEF closeIt, closeNumber, Typed, TypeOK
<1>4. firstWrong' \in [by : Objects, kind : {"serial", "udp"}, opened : BOOLEAN]
                        \cup {Nothing}
  BY <1>1, <1>2 DEF closeIt, closeNumber, Typed, TypeOK, Transports
<1>5. \/ m_serial' = [m_serial EXCEPT ![o].fd = -1]
      \/ m_serial' = m_serial
  BY DEF closeIt
<1>6. m_serial' \in [Objects -> Transports]
  <2>1. [m_serial[o] EXCEPT !.fd = -1] \in Transports
    BY <1>1 DEF Transports
  <2>2. m_serial \in [Objects -> Transports]
    BY DEF Typed, TypeOK
  <2>3. QED
    BY <1>5, <2>1, <2>2
<1>7. \A p \in Objects \ {o} : m_serial'[p] = m_serial[p]
  BY <1>5 DEF Typed, TypeOK
<1>8. m_serial'[o].kind = m_serial[o].kind /\ m_serial'[o].fd \in {m_serial[o].fd, -1}
  BY <1>1, <1>5 DEF Typed, TypeOK, Transports
<1>9. Numberless'
  BY <1>7, <1>8 DEF Typed, Numberless
<1>10. QED
  BY <1>3, <1>4, <1>6, <1>7, <1>9

\* They survive the steps that call closeIt.
LEMMA TypedAfterClose ==
  ASSUME Typed, NEW o \in Objects, openRefused(o) \/ close(o)
  PROVE  Typed'
<1>1. closeIt(o)
  BY DEF openRefused, close
<1>2. ~m_open'[o] /\ o \notin asking'
  BY DEF openRefused, close, runs, Typed, TypeOK, AskingIsNotOpen
<1>3. /\ m_open' \in [Objects -> BOOLEAN] /\ asking' \subseteq asking
      /\ \A p \in Objects \ {o} : m_open'[p] = m_open[p]
      /\ UNCHANGED <<platform, aborted>>
  BY DEF openRefused, close, Typed, TypeOK
<1>4. \A p \in Objects : Live(p)' => m_serial'[p].opened /\ m_serial'[p].fd \in Numbers
  BY <1>1, <1>2, <1>3, TypedAfterCloseIt DEF Typed, TypeOK, Live
<1>5. TypeOK'
  BY <1>1, <1>3, <1>4, TypedAfterCloseIt DEF Typed, TypeOK
<1>6. QED
  BY <1>1, <1>2, <1>3, <1>5, TypedAfterCloseIt DEF Typed, TypeOK, AskingIsNotOpen

\* They survive the other steps of an object.
LEMMA TypedAfterOthers ==
  ASSUME Typed, NEW o \in Objects, openIdentified(o) \/ closeAborts(o) \/ destroy(o)
  PROVE  Typed'
<1>1. CASE openIdentified(o)
  BY <1>1 DEF openIdentified, Typed, TypeOK, Numberless, AskingIsNotOpen, Live
<1>2. CASE closeAborts(o)
  BY <1>2 DEF closeAborts, Typed, TypeOK, Numberless, AskingIsNotOpen, Live
<1>3. CASE destroy(o)
  BY <1>3 DEF destroy, runs, Typed, TypeOK, Numberless, AskingIsNotOpen, Live, NoTransport,
              Transport, Transports
<1>4. QED
  BY <1>1, <1>2, <1>3

\* They survive the application.
LEMMA TypedAfterApplication ==
  ASSUME Typed, ApplicationOpens \/ ApplicationCloses
  PROVE  Typed'
<1>1. table' \in [Numbers -> Objects \cup {Application, Nobody}]
  BY FreshIsFree DEF ApplicationOpens, ApplicationCloses, Typed, TypeOK
<1>2. UNCHANGED <<platform, m_serial, m_open, asking, aborted, forgotten, firstWrong>>
  BY DEF ApplicationOpens, ApplicationCloses
<1>3. QED
  BY <1>1, <1>2 DEF Typed, TypeOK, Numberless, AskingIsNotOpen, Live

\* Every variable has its type: a transport that is believed open was opened and has
\* a number, and only such transports ever close one.
THEOREM TypingIsInvariant == Spec => []Typed
<1>1. Init => Typed
  BY DEF Init, Typed, TypeOK, Numberless, AskingIsNotOpen, Live, NoTransport, Transport,
         Transports, Nothing
<1>2. Typed /\ [Next]_vars => Typed'
  <2> SUFFICES ASSUME Typed, [Next]_vars PROVE Typed'
    OBVIOUS
  <2>1. ASSUME NEW o \in Objects, ObjectStep(o) PROVE Typed'
    BY <2>1, TypedAfterFailure, TypedAfterOpen, TypedAfterClose, TypedAfterOthers DEF ObjectStep
  <2>2. CASE UNCHANGED vars
    BY <2>2 DEF vars, Typed, TypeOK, Numberless, AskingIsNotOpen, Live
  <2>3. QED
    BY <2>1, <2>2, TypedAfterApplication DEF Next, ObjectStep
<1>3. QED
  BY <1>1, <1>2, PTL DEF Spec

\* The same, without what is needed to prove it.
THEOREM TypeCorrectness == Spec => []TypeOK
<1>1. Typed => TypeOK
  BY DEF Typed
<1>2. QED
  BY <1>1, TypingIsInvariant, PTL
-----------------------------------------------------------------------------
\* A number that is handed out adds to what its new owner has, and to nothing else.
LEMMA FreshGives ==
  ASSUME Typed, NEW n \in Fresh, NEW o \in Objects \cup {Application},
         table' = [table EXCEPT ![n] = o]
  PROVE  /\ \A p \in Objects : Owned(p)' = IF p = o THEN Owned(p) \cup {n} ELSE Owned(p)
         /\ \A k \in Numbers : table[k] \in Objects => table'[k] = table[k]
<1>1. n \in Numbers /\ table[n] = Nobody
  BY FreshIsFree DEF Free
<1>2. \A k \in Numbers : table'[k] = IF k = n THEN o ELSE table[k]
  BY <1>1 DEF Typed, TypeOK
<1>3. \A p \in Objects : p # Nobody /\ p # Application
  BY DescriptorsAssumption
<1>4. QED
  BY <1>1, <1>2, <1>3 DEF Owned

\* As long as nobody has closed a descriptor of somebody else, a close takes away one
\* of its own or none.
LEMMA RightClose ==
  ASSUME Typed, NEW o \in Objects, closeNumber(o), firstWrong' = Nothing
  PROVE  /\ firstWrong = Nothing
         /\ \/ UNCHANGED <<table, forgotten>> /\ m_serial[o].fd \notin Numbers \ Free
            \/ /\ m_serial[o].fd \in Numbers /\ table[m_serial[o].fd] = o
               /\ table' = [table EXCEPT ![m_serial[o].fd] = Nobody]
               /\ forgotten' = [forgotten EXCEPT ![o] = @ \ {m_serial[o].fd}]
<1>1. [by |-> o, kind |-> m_serial[o].kind, opened |-> m_serial[o].opened] # Nothing
  BY DescriptorsAssumption DEF Nothing
<1>2. QED
  BY <1>1 DEF closeNumber

\* So it takes nothing from the others.
LEMMA RightCloseTakesOwn ==
  ASSUME Typed, NEW o \in Objects, closeNumber(o), firstWrong' = Nothing
  PROVE  /\ \A p \in Objects \ {o} : Owned(p)' = Owned(p) /\ forgotten'[p] = forgotten[p]
         /\ \A k \in Numbers : table[k] \in Objects \ {o} => table'[k] = table[k]
<1>1. CASE UNCHANGED <<table, forgotten>>
  BY <1>1 DEF Owned
<1>2. CASE /\ m_serial[o].fd \in Numbers /\ table[m_serial[o].fd] = o
           /\ table' = [table EXCEPT ![m_serial[o].fd] = Nobody]
           /\ forgotten' = [forgotten EXCEPT ![o] = @ \ {m_serial[o].fd}]
  <2>1. \A k \in Numbers : table'[k] = IF k = m_serial[o].fd THEN Nobody ELSE table[k]
    BY <1>2 DEF Typed, TypeOK
  <2>2. \A p \in Objects : p # Nobody
    BY DescriptorsAssumption
  <2>3. \A p \in Objects \ {o} : forgotten'[p] = forgotten[p]
    BY <1>2 DEF Typed, TypeOK
  <2>4. QED
    BY <1>2, <2>1, <2>2, <2>3 DEF Owned
<1>3. QED
  BY <1>1, <1>2, RightClose

\* The transport of an object that is about to close is still its own: if the object
\* is careful because it is open then, if it is a serial port because it has a number.
LEMMA ClosersOwn ==
  ASSUME PoolInv, NEW o \in Objects, openRefused(o) \/ close(o), firstWrong = Nothing
  PROVE  /\ o \in Careful => m_serial[o].fd \in Numbers /\ table[m_serial[o].fd] = o
         /\ m_serial[o].kind = "serial" /\ m_serial[o].opened =>
              table[m_serial[o].fd] = o
<1>1. o \in Careful => Live(o)
  BY DEF openRefused, close, Live
<1>2. o \in Careful => m_serial[o].fd \in Owned(o)
  BY <1>1 DEF PoolInv, CarefulOwnsItsDescriptor
<1>3. m_serial[o].kind = "serial" => m_serial[o].fd # -1
  BY DEF openRefused, close, closeIt
<1>4. QED
  BY <1>2, <1>3 DEF Owned, PoolInv, SerialOwnsItsNumber

\* A close of a number that is the object's own wrongs nobody, and any other is the first wrong one.
LEMMA PoolAfterClose ==
  ASSUME PoolInv, Typed', NEW o \in Objects, openRefused(o) \/ close(o)
  PROVE  PoolInv'
<1>1. closeIt(o) /\ closeNumber(o)
  BY DEF openRefused, close, closeIt
<1>2. Typed
  BY DEF PoolInv
<1>3. CarelessClosesFirst'
  <2>1. CASE firstWrong' = firstWrong
    BY <2>1 DEF PoolInv, CarelessClosesFirst
  <2>2. CASE firstWrong' # firstWrong
    <3>1. /\ firstWrong = Nothing /\ table[m_serial[o].fd] # o
          /\ firstWrong' = [by |-> o, kind |-> m_serial[o].kind,
                            opened |-> m_serial[o].opened]
      BY <1>1, <2>2 DEF closeNumber
    <3>2. QED
      BY <3>1, ClosersOwn DEF CarelessClosesFirst
  <2>3. QED
    BY <2>1, <2>2
<1>4. SerialOwnsItsNumber'
  <2> SUFFICES ASSUME firstWrong' = Nothing, NEW p \in Objects,
                      m_serial'[p].kind = "serial", m_serial'[p].opened, m_serial'[p].fd # -1
               PROVE  table'[m_serial'[p].fd] = p
    BY DEF SerialOwnsItsNumber
  <2>1. p # o
    BY <1>1 DEF closeIt, PoolInv, Typed, TypeOK, Transports
  <2>2. m_serial'[p] = m_serial[p]
    BY <1>1, <1>2, <2>1, TypedAfterCloseIt
  <2>3. m_serial[p].fd \in Numbers
    BY <1>2, <2>2 DEF Typed, TypeOK, Transports
  <2>4. table[m_serial[p].fd] = p
    BY <1>1, <1>2, <2>2, RightClose DEF PoolInv, SerialOwnsItsNumber
  <2>5. QED
    BY <1>1, <1>2, <2>1, <2>2, <2>3, <2>4, RightCloseTakesOwn
<1>5. CarefulOwnsItsDescriptor'
  <2> SUFFICES ASSUME NEW p \in Careful
               PROVE  /\ aborted' # p
                      /\ firstWrong' = Nothing =>
                           Owned(p)' = forgotten'[p]
                                         \cup (IF Live(p)' THEN {m_serial'[p].fd} ELSE {})
    BY DEF CarefulOwnsItsDescriptor
  <2>1. p \in Objects
    BY DescriptorsAssumption
  <2>2. aborted' # p
    BY DEF openRefused, close, PoolInv, CarefulOwnsItsDescriptor
  <2>3. CASE p # o
    <3>1. Live(p)' = Live(p)
      BY <1>2, <2>1, <2>3 DEF openRefused, close, Live, Typed, TypeOK
    <3>2. m_serial'[p] = m_serial[p]
      BY <1>1, <1>2, <2>1, <2>3, TypedAfterCloseIt
    <3>3. QED
      BY <1>1, <1>2, <2>1, <2>2, <2>3, <3>1, <3>2, RightClose, RightCloseTakesOwn
      DEF PoolInv, CarefulOwnsItsDescriptor
  <2>4. CASE p = o
    <3> DEFINE n == m_serial[o].fd
    <3>1. ~Live(p)'
      BY <1>2, <2>4 DEF openRefused, close, runs, Live, Typed, TypeOK, AskingIsNotOpen
    <3>2. Live(p)
      BY <2>4 DEF openRefused, close, Live
    <3>3. SUFFICES ASSUME firstWrong' = Nothing PROVE Owned(p)' = forgotten'[p]
      BY <2>2, <3>1
    <3>4. /\ firstWrong = Nothing /\ n \in Numbers /\ table[n] = o
      BY <1>1, <1>2, <2>4, <3>3, RightClose, ClosersOwn
    <3>5. n \notin Free
      BY <3>4, DescriptorsAssumption DEF Free
    <3>6. /\ table' = [table EXCEPT ![n] = Nobody]
          /\ forgotten' = [forgotten EXCEPT ![o] = @ \ {n}]
      BY <1>1, <1>2, <3>3, <3>4, <3>5, RightClose
    <3>7. Owned(o)' = Owned(o) \ {n}
      BY <1>2, <3>4, <3>6, DescriptorsAssumption DEF Owned, Typed, TypeOK
    <3>8. forgotten'[o] = forgotten[o] \ {n}
      BY <1>2, <3>6 DEF Typed, TypeOK
    <3>9. Owned(o) = forgotten[o] \cup {n}
      BY <2>4, <3>2, <3>4 DEF PoolInv, CarefulOwnsItsDescriptor
    <3>10. QED
      BY <2>4, <3>7, <3>8, <3>9
  <2>5. QED
    BY <2>3, <2>4
<1>6. QED
  BY <1>3, <1>4, <1>5 DEF PoolInv

\* Steps that close nothing leave the first wrong close where it was.
LEMMA NobodyCloses ==
  ASSUME PoolInv, firstWrong' = firstWrong
  PROVE  CarelessClosesFirst'
  BY DEF PoolInv, CarelessClosesFirst

\* An open that fails leaves the descriptors of others alone, also when it forgets its own.
LEMMA PoolAfterFailure ==
  ASSUME PoolInv, Typed', NEW o \in Objects, openFails(o) \/ openFailsAndForgets(o)
  PROVE  PoolInv'
<1>1. Typed
  BY DEF PoolInv
<1>2. /\ m_open' = [m_open EXCEPT ![o] = FALSE] /\ o \notin asking
      /\ o \in Careful => ~m_open[o]
      /\ UNCHANGED <<asking, aborted, firstWrong>>
  BY DEF openFails, openFailsAndForgets, startsOpen, runs
<1>3. /\ ~m_serial'[o].opened
      /\ \A p \in Objects \ {o} : m_serial'[p] = m_serial[p]
  BY <1>1, FailuresAreTransports DEF openFails, openFailsAndForgets, Typed, TypeOK
<1>4. /\ \A k \in Numbers : table[k] \in Objects => table'[k] = table[k]
      /\ \A p \in Objects \ {o} : Owned(p)' = Owned(p) /\ forgotten'[p] = forgotten[p]
      /\ Owned(o) = forgotten[o] => Owned(o)' = forgotten'[o]
  <2>1. CASE openFails(o)
    BY <2>1 DEF openFails, Owned
  <2>2. CASE openFailsAndForgets(o)
    <3>1. PICK n \in Fresh : /\ table' = [table EXCEPT ![n] = o]
                             /\ forgotten' = [forgotten EXCEPT ![o] = @ \cup {n}]
      BY <2>2 DEF openFailsAndForgets
    <3>2. /\ forgotten'[o] = forgotten[o] \cup {n}
          /\ \A p \in Objects \ {o} : forgotten'[p] = forgotten[p]
      BY <1>1, <3>1 DEF Typed, TypeOK
    <3>3. /\ \A k \in Numbers : table[k] \in Objects => table'[k] = table[k]
          /\ \A p \in Objects \ {o} : Owned(p)' = Owned(p)
          /\ Owned(o)' = Owned(o) \cup {n}
      BY <1>1, <3>1, FreshGives
    <3>4. QED
      BY <3>2, <3>3
  <2>3. QED
    BY <2>1, <2>2
<1>5. SerialOwnsItsNumber'
  <2> SUFFICES ASSUME firstWrong' = Nothing, NEW p \in Objects,
                      m_serial'[p].kind = "serial", m_serial'[p].opened,
                      m_serial'[p].fd # -1
               PROVE  table'[m_serial'[p].fd] = p
    BY DEF SerialOwnsItsNumber
  <2>1. m_serial'[p] = m_serial[p] /\ firstWrong = Nothing
    BY <1>2, <1>3
  <2>2. m_serial[p].fd \in Numbers
    BY <1>1, <2>1 DEF Typed, TypeOK, Transports
  <2>3. table[m_serial[p].fd] = p
    BY <2>1 DEF PoolInv, SerialOwnsItsNumber
  <2>4. QED
    BY <1>4, <2>1, <2>2, <2>3
<1>6. CarefulOwnsItsDescriptor'
  <2> SUFFICES ASSUME NEW p \in Careful
               PROVE  /\ aborted' # p
                      /\ firstWrong' = Nothing =>
                           Owned(p)' = forgotten'[p]
                                         \cup (IF Live(p)' THEN {m_serial'[p].fd} ELSE {})
    BY DEF CarefulOwnsItsDescriptor
  <2>1. p \in Objects
    BY DescriptorsAssumption
  <2>2. CASE p # o
    <3>1. Live(p)' = Live(p)
      BY <1>1, <1>2, <2>1, <2>2 DEF Live, Typed, TypeOK
    <3>2. QED
      BY <1>2, <1>3, <1>4, <2>1, <2>2, <3>1 DEF PoolInv, CarefulOwnsItsDescriptor
  <2>3. CASE p = o
    <3>1. ~Live(p) /\ ~Live(p)'
      BY <1>1, <1>2, <2>3 DEF Live, Typed, TypeOK
    <3>2. QED
      BY <1>2, <1>4, <2>3, <3>1 DEF PoolInv, CarefulOwnsItsDescriptor
  <2>4. QED
    BY <2>2, <2>3
<1>7. QED
  BY <1>2, <1>5, <1>6, NobodyCloses DEF PoolInv

\* An open that gets a number gets one that belonged to nobody.
LEMMA PoolAfterOpen ==
  ASSUME PoolInv, Typed', NEW o \in Objects, open(o)
  PROVE  PoolInv'
<1>1. Typed
  BY DEF PoolInv
<1>2. PICK n \in Fresh, kind \in KindsOf(platform) \ {"dummy"} :
        /\ m_serial' = [m_serial EXCEPT ![o] = Transport(kind, n, TRUE)]
        /\ table' = [table EXCEPT ![n] = o]
  BY DEF open
<1>3. /\ m_open' = [m_open EXCEPT ![o] = FALSE] /\ o \notin asking
      /\ o \in Careful => ~m_open[o]
      /\ asking' = asking \cup {o}
      /\ UNCHANGED <<aborted, forgotten, firstWrong>>
  BY DEF open, startsOpen, runs
<1>4. /\ n \in Numbers /\ m_serial'[o].fd = n /\ table'[n] = o
      /\ \A p \in Objects \ {o} : m_serial'[p] = m_serial[p]
  BY <1>1, <1>2, FreshIsFree DEF Typed, TypeOK, Transport
<1>5. /\ \A k \in Numbers : table[k] \in Objects => table'[k] = table[k]
      /\ \A p \in Objects \ {o} : Owned(p)' = Owned(p)
      /\ Owned(o)' = Owned(o) \cup {n}
  BY <1>1, <1>2, FreshGives
<1>6. SerialOwnsItsNumber'
  BY <1>1, <1>3, <1>4, <1>5 DEF PoolInv, SerialOwnsItsNumber, Typed, TypeOK, Transports
<1>7. CarefulOwnsItsDescriptor'
  <2> SUFFICES ASSUME NEW p \in Careful
               PROVE  /\ aborted' # p
                      /\ firstWrong' = Nothing =>
                           Owned(p)' = forgotten'[p]
                                         \cup (IF Live(p)' THEN {m_serial'[p].fd} ELSE {})
    BY DEF CarefulOwnsItsDescriptor
  <2>1. p \in Objects
    BY DescriptorsAssumption
  <2>2. CASE p # o
    <3>1. Live(p)' = Live(p)
      BY <1>1, <1>3, <2>1, <2>2 DEF Live, Typed, TypeOK
    <3>2. QED
      BY <1>3, <1>4, <1>5, <2>1, <2>2, <3>1 DEF PoolInv, CarefulOwnsItsDescriptor
  <2>3. CASE p = o
    <3>1. ~Live(p) /\ Live(p)'
      BY <1>1, <1>3, <2>3 DEF Live, Typed, TypeOK
    <3>2. QED
      BY <1>3, <1>4, <1>5, <2>3, <3>1 DEF PoolInv, CarefulOwnsItsDescriptor
  <2>4. QED
    BY <2>2, <2>3
<1>8. QED
  BY <1>3, <1>6, <1>7, NobodyCloses DEF PoolInv

\* A careful object that calls close is open and has its number.
LEMMA PoolAfterOthers ==
  ASSUME PoolInv, Typed', NEW o \in Objects,
         openIdentified(o) \/ closeAborts(o) \/ destroy(o)
  PROVE  PoolInv'
<1>1. Typed
  BY DEF PoolInv
<1>2. UNCHANGED <<table, forgotten, firstWrong>>
  BY DEF openIdentified, closeAborts, destroy
<1>3. \A p \in Objects : Owned(p)' = Owned(p)
  BY <1>2 DEF Owned
<1>4. SerialOwnsItsNumber'
  <2>1. \A p \in Objects : m_serial'[p] = m_serial[p] \/ m_serial'[p] = NoTransport
    BY <1>1 DEF openIdentified, closeAborts, destroy, Typed, TypeOK
  <2>2. QED
    BY <1>2, <2>1 DEF PoolInv, SerialOwnsItsNumber, NoTransport, Transport
<1>5. CarefulOwnsItsDescriptor'
  <2>1. CASE openIdentified(o)
    BY <1>1, <1>2, <1>3, <2>1, DescriptorsAssumption
    DEF openIdentified, Live, PoolInv, CarefulOwnsItsDescriptor, Typed, TypeOK
  <2>2. CASE closeAborts(o)
    <3>1. o \notin Careful
      BY <1>1, <2>2, NoNumber DEF closeAborts, Live, Typed, TypeOK
    <3>2. QED
      BY <1>2, <1>3, <2>2, <3>1, DescriptorsAssumption
      DEF closeAborts, Live, PoolInv, CarefulOwnsItsDescriptor
  <2>3. CASE destroy(o)
    BY <1>1, <1>2, <1>3, <2>3, DescriptorsAssumption
    DEF destroy, runs, Live, PoolInv, CarefulOwnsItsDescriptor, Typed, TypeOK
  <2>4. QED
    BY <2>1, <2>2, <2>3
<1>6. QED
  BY <1>2, <1>4, <1>5, NobodyCloses DEF PoolInv

\* The application takes free numbers and closes its own.
LEMMA PoolAfterApplication ==
  ASSUME PoolInv, Typed', ApplicationOpens \/ ApplicationCloses
  PROVE  PoolInv'
<1>1. Typed
  BY DEF PoolInv
<1>2. UNCHANGED <<m_serial, m_open, asking, aborted, forgotten, firstWrong>>
  BY DEF ApplicationOpens, ApplicationCloses
<1>3. /\ \A p \in Objects : Owned(p)' = Owned(p)
      /\ \A k \in Numbers : table[k] \in Objects => table'[k] = table[k]
  <2>1. \A p \in Objects : p # Application /\ p # Nobody
    BY DescriptorsAssumption
  <2>2. CASE ApplicationOpens
    BY <1>1, <2>1, <2>2, FreshGives DEF ApplicationOpens
  <2>3. CASE ApplicationCloses
    <3>1. PICK n \in Numbers : /\ table[n] = Application
                               /\ table' = [table EXCEPT ![n] = Nobody]
      BY <2>3 DEF ApplicationCloses
    <3>2. \A k \in Numbers : table'[k] = IF k = n THEN Nobody ELSE table[k]
      BY <1>1, <3>1 DEF Typed, TypeOK
    <3>3. QED
      BY <2>1, <3>1, <3>2 DEF Owned
  <2>4. QED
    BY <2>2, <2>3
<1>4. SerialOwnsItsNumber'
  BY <1>1, <1>2, <1>3 DEF PoolInv, SerialOwnsItsNumber, Typed, TypeOK, Transports
<1>5. CarefulOwnsItsDescriptor'
  BY <1>2, <1>3, DescriptorsAssumption DEF Live, PoolInv, CarefulOwnsItsDescriptor
<1>6. QED
  BY <1>2, <1>4, <1>5, NobodyCloses DEF PoolInv

\* Until the first wrong close everybody has what he believes to have.
THEOREM PoolIsInvariant == Spec => []PoolInv
<1>1. Typed /\ Init => PoolInv
  <2> SUFFICES ASSUME Typed, Init PROVE PoolInv
    OBVIOUS
  <2>1. SerialOwnsItsNumber /\ CarelessClosesFirst
    BY DEF Init, SerialOwnsItsNumber, CarelessClosesFirst, NoTransport, Transport
  <2>2. \A o \in Objects : Owned(o) = {} /\ forgotten[o] = {} /\ ~Live(o) /\ aborted # o
    BY DescriptorsAssumption DEF Init, Owned, Live
  <2>3. CarefulOwnsItsDescriptor
    BY <2>2, DescriptorsAssumption DEF CarefulOwnsItsDescriptor
  <2>4. QED
    BY <2>1, <2>3 DEF PoolInv
<1>2. Typed' /\ PoolInv /\ [Next]_vars => PoolInv'
  <2> SUFFICES ASSUME Typed', PoolInv, [Next]_vars PROVE PoolInv'
    OBVIOUS
  <2>1. ASSUME NEW o \in Objects, ObjectStep(o) PROVE PoolInv'
    BY <2>1, PoolAfterFailure, PoolAfterOpen, PoolAfterClose, PoolAfterOthers DEF ObjectStep
  <2>2. CASE UNCHANGED vars
    BY <2>2 DEF vars, PoolInv, Typed, SerialOwnsItsNumber, CarelessClosesFirst,
                CarefulOwnsItsDescriptor, Owned, Live
  <2>3. QED
    BY <2>1, <2>2, PoolAfterApplication DEF Next, ObjectStep
<1>3. QED
  BY <1>1, <1>2, TypingIsInvariant, PTL DEF Spec

\* However many objects share the process, no careful one and no serial port that was
\* opened is the first to close what is not its own.
THEOREM CarelessCloseFirst == Spec => []CarelessClosesFirst
<1>1. PoolInv => CarelessClosesFirst
  BY DEF PoolInv
<1>2. QED
  BY <1>1, PoolIsInvariant, PTL

\* A careful object never aborts the process, and until then it has its descriptor
\* while it is open, and none otherwise that its failing opens have not forgotten.
THEOREM CarefulOwnTheirDescriptors == Spec => []CarefulOwnsItsDescriptor
<1>1. PoolInv => CarefulOwnsItsDescriptor
  BY DEF PoolInv
<1>2. QED
  BY <1>1, PoolIsInvariant, PTL
=============================================================================
