--------------------------- MODULE ExporterProofs ----------------------------
(***************************************************************************)
(* For any number of clients and a process that is root or is not: the     *)
(* types of Exporter, and what the process has opened when it serves.      *)
(***************************************************************************)
EXTENDS Exporter, TLAPS

LEMMA InitTypes == Init => TypeOK
  BY DEF Init, TypeOK

\* The steps of the process that keep it alive, in turn.
LEMMA StepTypes ==
  ASSUME TypeOK, [Next]_vars
  PROVE  TypeOK'
  <1> USE DEF TypeOK
  <1>1. CASE Restart
    BY <1>1 DEF Restart
  <1>2. CASE FirstOpen
    BY <1>2 DEF FirstOpen, Openable
  <1>3. CASE Mknod
    BY <1>3 DEF Mknod, FileType
  <1>4. CASE SecondOpen
    BY <1>4 DEF SecondOpen, Openable
  <1>5. ASSUME Exit, UNCHANGED <<root, loaded, node, port>> PROVE TypeOK'
    <2>1. req' \in [Client -> {"idle", "open", "lost", "complete", "partial", "empty", "500"}]
      BY <1>5 DEF Exit
    <2>2. \A c \in Client : req'[c] # "open"
      BY <1>5 DEF Exit
    <2>3. pc' = "down" /\ first' = "none" /\ handle' = "none"
      BY <1>5 DEF Exit
    <2>4. root' = root /\ loaded' = loaded /\ node' = node /\ port' = port
      BY <1>5
    <2> QED
      BY <2>1, <2>2, <2>3, <2>4
  <1>6. CASE SecondOpenFails
    BY <1>5, <1>6 DEF SecondOpenFails
  <1>7. CASE Listen
    BY <1>7 DEF Listen
  <1>8. CASE ListenFails
    BY <1>5, <1>8 DEF ListenFails
  <1>9. CASE CloseFirst
    BY <1>9 DEF CloseFirst
  <1>10. ASSUME NEW c \in Client, Request(c) PROVE TypeOK'
    BY <1>10 DEF Request
  <1>11. ASSUME NEW c \in Client, Answer(c) PROVE TypeOK'
    <2>1. PICK a \in Answers : req' = [req EXCEPT ![c] = a]
      BY <1>11 DEF Answer
    <2>2. a \in {"complete", "partial", "empty", "500"}
      BY DEF Answers
    <2> QED
      BY <1>11, <2>1, <2>2 DEF Answer
  <1>12. ASSUME NEW c \in Client, Panic(c) PROVE TypeOK'
    BY <1>5, <1>12 DEF Panic
  <1>13. CASE Load
    BY <1>13 DEF Load
  <1>14. CASE Unload
    BY <1>14 DEF Unload
  <1>15. CASE TakePort
    BY <1>15 DEF TakePort
  <1>16. CASE FreePort
    BY <1>16 DEF FreePort
  <1>17. CASE UNCHANGED vars
    BY <1>17 DEF vars
  <1> QED
    BY <1>1, <1>2, <1>3, <1>4, <1>6, <1>7, <1>8, <1>9, <1>10, <1>11, <1>12, <1>13, <1>14,
       <1>15, <1>16, <1>17 DEF Next, Setup

(***************************************************************************)
(* All variables keep their types, and requests are in flight only while   *)
(* the process serves: none survives an exit (main.go:771-781).            *)
(***************************************************************************)
THEOREM Typing == Spec => []TypeOK
  BY InitTypes, StepTypes, PTL DEF Spec

-----------------------------------------------------------------------------
(***************************************************************************)
(* Why the process serves from the device, or from a file that it made:    *)
(* only the module makes a device of /dev/zfs, only a process that is root *)
(* a file; a file stays, and open files keep the module loaded.            *)
(***************************************************************************)
DeviceInv ==
  /\ node = "device" => loaded
  /\ node = "absent" => ~loaded
  /\ node = "regular" => root
  /\ handle = "device" => node = "device"
  /\ handle = "regular" => node = "regular"
  /\ pc \in {"listen", "serve"} => handle # "none"

LEMMA DeviceStep ==
  ASSUME TypeOK, DeviceInv, [Next]_vars
  PROVE  DeviceInv'
  <1> USE DEF DeviceInv, TypeOK
  <1>1. CASE Restart
    BY <1>1 DEF Restart
  <1>2. CASE FirstOpen
    BY <1>2 DEF FirstOpen
  <1>3. CASE Mknod
    <2>1. FileType(Mode) = "regular"
      <3>1. 666 \div 4096 = 0
        OBVIOUS
      <3>2. 0 % 16 = 0
        OBVIOUS
      <3> QED
        BY <3>1, <3>2 DEF FileType, Mode
    <2> QED
      BY <1>3, <2>1 DEF Mknod
  <1>4. CASE SecondOpen
    BY <1>4 DEF SecondOpen, Openable
  <1>5. CASE SecondOpenFails
    BY <1>5 DEF SecondOpenFails, Exit
  <1>6. CASE Listen
    BY <1>6 DEF Listen
  <1>7. CASE ListenFails
    BY <1>7 DEF ListenFails, Exit
  <1>8. CASE CloseFirst
    BY <1>8 DEF CloseFirst
  <1>9. ASSUME NEW c \in Client, Request(c) \/ Answer(c) PROVE DeviceInv'
    BY <1>9 DEF Request, Answer
  <1>10. ASSUME NEW c \in Client, Panic(c) PROVE DeviceInv'
    BY <1>10 DEF Panic, Exit
  <1>11. CASE Load
    BY <1>11 DEF Load
  <1>12. CASE Unload
    BY <1>12 DEF Unload
  <1>13. CASE TakePort \/ FreePort
    BY <1>13 DEF TakePort, FreePort
  <1>14. CASE UNCHANGED vars
    BY <1>14 DEF vars
  <1> QED
    BY <1>1, <1>2, <1>3, <1>4, <1>5, <1>6, <1>7, <1>8, <1>9, <1>10, <1>11, <1>12, <1>13, <1>14
    DEF Next, Setup

(***************************************************************************)
(* A process that gets past NewZFSHandleWithPath has a handle on what      *)
(* /dev/zfs still is, the ZFS device or, as root, a file that Mknod made,  *)
(* however the module is loaded and unloaded between its system calls and  *)
(* whichever collections panic (ioctl.go:20-27).                           *)
(***************************************************************************)
THEOREM DeviceOpened == Spec => []OpensTheDevice
  <1>1. Init => DeviceInv
    BY DEF Init, DeviceInv
  <1>2. TypeOK /\ DeviceInv /\ [Next]_vars => DeviceInv'
    BY DeviceStep
  <1>3. TypeOK /\ DeviceInv => OpensTheDevice
    BY DEF TypeOK, DeviceInv, OpensTheDevice
  <1> QED
    BY <1>1, <1>2, <1>3, Typing, PTL DEF Spec
=============================================================================
