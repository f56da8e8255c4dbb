------------------------------ MODULE Exporter -------------------------------
(***************************************************************************)
(* The life of the process: main, setup and NewZFSHandleWithPath, one step *)
(* per system call, and the HTTP requests it then serves, each with a      *)
(* collection of its own.  The service manager starts it again whenever it *)
(* has ended.  Outside of it the ZFS module is loaded and unloaded, which  *)
(* makes and removes /dev/zfs, and its port is taken and given back.       *)
(***************************************************************************)
EXTENDS Integers

CONSTANTS
  Client,  \* who sends requests
  Root     \* whether the process may create nodes in /dev and read any file:
           \* the possible answers, as the service runs as root or as a user

ASSUME RootAssumption == Root \subseteq BOOLEAN

\* The type bits of the mode in mknod(2), S_IFMT: none of them means a
\* regular file, 2 is S_IFCHR.
FileType(mode) == IF (mode \div 4096) % 16 = 2 THEN "device" ELSE "regular"

\* The read bit for others.
OthersRead(mode) == (mode \div 4) % 2 = 1

\* The mode given to Mknod: 666 in decimal.
Mode == 666

VARIABLES
  root,    \* which of them it is; the service's definition does not change
  loaded,  \* the ZFS module is loaded
  node,    \* /dev/zfs
  port,    \* listenAddr
  pc,      \* the next step of the process, down when there is none
  first,   \* what the file of the first open is, until the runtime closes it
  handle,  \* what zfsHandle is
  req      \* the requests of the clients

vars == <<root, loaded, node, port, pc, first, handle, req>>

Init ==
  /\ root \in Root
  /\ loaded \in BOOLEAN
  /\ node = IF loaded THEN "device" ELSE "absent"
  /\ port = "free"
  /\ pc = "down"
  /\ first = "none"
  /\ handle = "none"
  /\ req = [c \in Client |-> "idle"]

-----------------------------------------------------------------------------
\* os.Open of /dev/zfs.  The module makes its node readable for everybody.
Openable == node = "device" \/ (node = "regular" /\ (root \/ OthersRead(Mode)))

\* Connections that outlive the process.
MutantExit ==
  /\ pc' = "down"
  /\ first' = "none"
  /\ handle' = "none"
  /\ UNCHANGED req

\* log.Fatal, or a panic: the descriptors and the connections are closed.
Exit ==
  /\ pc' = "down"
  /\ first' = "none"
  /\ handle' = "none"
  /\ req' = [c \in Client |-> IF req[c] = "open" THEN "lost" ELSE req[c]]

\* A service that is not restarted after a panic.
MutantRestart ==
  /\ pc = "down"
  /\ \A c \in Client : req[c] # "lost"
  /\ pc' = "firstOpen"
  /\ UNCHANGED <<root, loaded, node, port, first, handle, req>>

\* Restart = "always" with RestartSec = "5".
Restart ==
  /\ pc = "down"
  /\ pc' = "firstOpen"
  /\ UNCHANGED <<root, loaded, node, port, first, handle, req>>

FirstOpen ==
  /\ pc = "firstOpen"
  /\ pc' = IF node = "absent" THEN "mknod" ELSE "secondOpen"
  /\ first' = IF Openable THEN node ELSE "none"
  /\ UNCHANGED <<root, loaded, node, port, handle, req>>

\* Errors of Mknod (the node exists by now, the process may not) are ignored.
Mknod ==
  /\ pc = "mknod"
  /\ pc' = "secondOpen"
  /\ node' = IF node = "absent" /\ root THEN FileType(Mode) ELSE node
  /\ UNCHANGED <<root, loaded, port, first, handle, req>>

\* The error of the second open is not looked at.
MutantSecondOpen ==
  /\ pc = "secondOpen"
  /\ handle' = IF Openable THEN node ELSE "none"
  /\ pc' = "listen"
  /\ UNCHANGED <<root, loaded, node, port, first, req>>

SecondOpen ==
  /\ pc = "secondOpen"
  /\ Openable
  /\ handle' = node
  /\ pc' = "listen"
  /\ UNCHANGED <<root, loaded, node, port, first, req>>

SecondOpenFails ==
  /\ pc = "secondOpen"
  /\ ~Openable
  /\ Exit
  /\ UNCHANGED <<root, loaded, node, port>>

\* The collectors are registered and the port is opened.
Listen ==
  /\ pc = "listen"
  /\ port = "free"
  /\ pc' = "serve"
  /\ UNCHANGED <<root, loaded, node, port, first, handle, req>>

ListenFails ==
  /\ pc = "listen"
  /\ port = "taken"
  /\ Exit
  /\ UNCHANGED <<root, loaded, node, port>>

\* The runtime closes the file of the first open, which nothing refers to.
CloseFirst ==
  /\ first # "none"
  /\ first' = "none"
  /\ UNCHANGED <<root, loaded, node, port, pc, handle, req>>

\* The handler starts a collection.
Request(c) ==
  /\ pc = "serve"
  /\ req[c] # "open"
  /\ req' = [req EXCEPT ![c] = "open"]
  /\ UNCHANGED <<root, loaded, node, port, pc, first, handle>>

\* Collect has returned, having logged its error if it had one: what it sent
\* until then is the answer.  The first ioctl on anything but the device fails,
\* so nothing was sent then.  A duplicate makes the registry answer with 500.
Answers ==
  IF handle = "device" THEN {"complete", "partial", "empty", "500"} ELSE {"empty"}

Answer(c) ==
  /\ req[c] = "open"
  /\ req' \in {[req EXCEPT ![c] = a] : a \in Answers}
  /\ UNCHANGED <<root, loaded, node, port, pc, first, handle>>

\* A panic in the goroutine of a collection ends the process.
Panic(c) ==
  /\ req[c] = "open"
  /\ handle = "device"
  /\ Exit
  /\ UNCHANGED <<root, loaded, node, port>>

-----------------------------------------------------------------------------
\* devtmpfs leaves a file that is already there.
Load ==
  /\ ~loaded
  /\ loaded' = TRUE
  /\ node' = IF node = "absent" THEN "device" ELSE node
  /\ UNCHANGED <<root, port, pc, first, handle, req>>

\* Open files keep the module loaded.
Unload ==
  /\ loaded
  /\ first # "device"
  /\ handle # "device"
  /\ loaded' = FALSE
  /\ node' = IF node = "device" THEN "absent" ELSE node
  /\ UNCHANGED <<root, port, pc, first, handle, req>>

TakePort ==
  /\ port = "free"
  /\ pc # "serve"
  /\ port' = "taken"
  /\ UNCHANGED <<root, loaded, node, pc, first, handle, req>>

FreePort ==
  /\ port = "taken"
  /\ port' = "free"
  /\ UNCHANGED <<root, loaded, node, pc, first, handle, req>>

Setup == FirstOpen \/ Mknod \/ SecondOpen \/ SecondOpenFails \/ Listen \/ ListenFails

Next ==
  \/ Restart
  \/ Setup
  \/ CloseFirst
  \/ \E c \in Client : Request(c) \/ Answer(c) \/ Panic(c)
  \/ Load \/ Unload \/ TakePort \/ FreePort

(***************************************************************************)
(* The service manager restarts the service, and the process runs.         *)
(***************************************************************************)
Fairness == WF_vars(Restart) /\ WF_vars(Setup)

Spec == Init /\ [][Next]_vars /\ Fairness

-----------------------------------------------------------------------------
TypeOK ==
  /\ root \in Root
  /\ loaded \in BOOLEAN
  /\ node \in {"absent", "regular", "device"}
  /\ port \in {"free", "taken"}
  /\ pc \in {"down", "firstOpen", "mknod", "secondOpen", "listen", "serve"}
  /\ first \in {"none", "regular", "device"}
  /\ handle \in {"none", "regular", "device"}
  /\ req \in [Client -> {"idle", "open", "lost", "complete", "partial", "empty", "500"}]
  /\ \A c \in Client : req[c] = "open" => pc = "serve"

(***************************************************************************)
(* Whatever the module does between the two opens and Mknod, a process     *)
(* that gets past NewZFSHandleWithPath has a handle on what /dev/zfs still *)
(* is.  That is the ZFS device, which cannot go away any more, unless the  *)
(* process is root: then it may be a file that Mknod made, in this life of *)
(* the process or in one before (ioctl.go:20-27).                          *)
(***************************************************************************)
OpensTheDevice ==
  pc \in {"listen", "serve"} =>
    /\ handle = node
    /\ (handle = "device" /\ loaded) \/ (handle = "regular" /\ root)

(***************************************************************************)
(* Once the module and the port are there for good, the process gets to    *)
(* serve requests from the device, however often it failed to start or     *)
(* crashed before, and whatever it left in /dev (ioctl.go:20-27,           *)
(* main.go:771-781, nixos/module.nix:48-49).                               *)
(***************************************************************************)
RecoversOnceLoaded ==
  <>[](loaded /\ port = "free") => []<>(pc = "serve" /\ handle = "device")

(***************************************************************************)
(* What is left of it for a process that may be root: it gets to serve     *)
(* again and again, from the device, or for ever from a file that Mknod    *)
(* left in its place.  No failed start is final.                           *)
(***************************************************************************)
RecoversUnlessFileMade ==
  <>[](loaded /\ port = "free") =>
    \/ []<>(pc = "serve" /\ handle = "device")
    \/ root /\ <>[](node = "regular") /\ []<>(pc = "serve" /\ handle = "regular")
=============================================================================
