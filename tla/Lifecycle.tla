----------------------------- MODULE Lifecycle ------------------------------
(***************************************************************************)
(* One node from start to exit, again and again: main of main.cpp, the     *)
(* parameters of Config.cpp in memory and in spatter.conf, and the console *)
(* thread, which main starts before there is a control_protocol.  The      *)
(* process may be killed at any time.                                      *)
(*                                                                         *)
(* A parameter is a key with a value that is "usable" or "unusable" for    *)
(* what main does with it; the empty string is unusable, too.              *)
(***************************************************************************)
EXTENDS Distance

CONSTANTS
    Others,       \* keys that main does not read, like "dht.alpha"
    Files,        \* the files the user may have written
    NodeIds       \* the nodeIds of this node and of its friends

ReadKeys == {"network.ip", "network.port", "network.thread_pool_size", "dht.friendlist"}
Keys     == ReadKeys \cup Others
Values   == {"usable", "unusable", ""}

\* params: the lines key=value, in no order.
\* odd: there is a line without "=", from which load_config makes a string of
\* length npos.  long: its 512 bytes or more fill buff, and the 0 goes behind it.
ParamsOn(keys) == [keys -> Values]
File == [params : UNION { ParamsOn(keys) : keys \in SUBSET Keys },
         odd : BOOLEAN, long : BOOLEAN]

ASSUME LifecycleAssumption == Files \subseteq File /\ NodeIds \subseteq Bytes

VARIABLES
    main,             \* where main is; "off" when there is no process
    bits_in_16bits,
    ended,            \* how the last process ended
    file,             \* spatter.conf
    props,            \* the parameters in memory
    unwritten,        \* the keys save_config has still to write
    console,          \* the console thread
    protocol,         \* "null" until control_protocol::create succeeds
    pool,             \* whether there are pool threads
    known,            \* whether a bucket has a node
    users_file,       \* history: the file as the user wrote it
    cut               \* history: a process ended while it saved

memory  == <<bits_in_16bits, props, console, protocol, pool, known>>
disk    == <<file, users_file, cut>>
vars == <<main, ended, memory, unwritten, disk>>

NoParams == [k \in {} |-> ""]

Fresh ==
    /\ bits_in_16bits = NoBitCounts
    /\ props = NoParams
    /\ console = "off"
    /\ protocol = "null"
    /\ pool = FALSE
    /\ known = FALSE

Init ==
    /\ main = "off"
    /\ ended = "not_started"
    /\ Fresh
    /\ unwritten = {}
    /\ file \in Files
    /\ users_file = file
    /\ cut = FALSE

Saving == main = "write"

\* The process ends, with all its threads and its memory.
Ends(how) ==
    /\ main' = "off"
    /\ ended' = how
    /\ bits_in_16bits' = NoBitCounts
    /\ props' = NoParams
    /\ console' = "off"
    /\ protocol' = "null"
    /\ pool' = FALSE
    /\ known' = FALSE
    /\ unwritten' = {}
    /\ cut' = (cut \/ Saving)
    /\ UNCHANGED <<file, users_file>>

-----------------------------------------------------------------------------
\* Start-up.

Start ==
    /\ main = "off"
    /\ main' = "init_util"
    /\ UNCHANGED <<ended, memory, unwritten, disk>>

init_util ==
    /\ main = "init_util"
    /\ main' = "load_config"
    /\ bits_in_16bits' = BitCounts
    /\ UNCHANGED <<ended, props, console, protocol, pool, known, unwritten, disk>>

load_config ==
    /\ main = "load_config"
    /\ \/ file.odd /\ Ends("exception")
       \/ file.long /\ Ends("undefined")
       \/ /\ ~file.odd
          /\ main' = "make_dht"
          /\ props' = file.params
          /\ UNCHANGED <<ended, bits_in_16bits, console, protocol, pool, known, unwritten, disk>>

\* get_param's props[key] inserts a key that is not there.
WithRead(keys) ==
    [k \in DOMAIN props \cup keys |-> IF k \in DOMAIN props THEN props[k] ELSE ""]

Read(key) == WithRead({key})[key]

\* Faulty variant of MakeDht: a port that is none becomes 0.
MakeDhtAnyPort ==
    /\ main = "make_dht"
    /\ main' = "load_friends_list"
    /\ props' = WithRead({"network.ip", "network.port"})
    /\ UNCHANGED <<ended, bits_in_16bits, console, protocol, pool, known, unwritten, disk>>

\* make_dht(get_param("network.ip"), lexical_cast<uint16_t>(get_param("network.port")))
MakeDht ==
    /\ main = "make_dht"
    /\ IF Read("network.port") = "usable"
       THEN /\ main' = "load_friends_list"
            /\ props' = WithRead({"network.ip", "network.port"})
            /\ UNCHANGED <<ended, bits_in_16bits, console, protocol, pool, known, unwritten, disk>>
       ELSE Ends("exception")

(***************************************************************************)
(* load_friends_list, as far as it matters here: whether somebody is known *)
(* then, or a line of the list is not understood, or a friend is pinged    *)
(* through the null protocol (see ControlProtocol).                        *)
(***************************************************************************)
LoadFriends ==
    /\ main = "load_friends_list"
    /\ \/ /\ main' = "start_console"
          /\ props' = WithRead({"dht.friendlist"})
          /\ known' \in {FALSE, Read("dht.friendlist") = "usable"}
          /\ UNCHANGED <<ended, bits_in_16bits, console, protocol, pool, unwritten, disk>>
       \/ /\ Read("dht.friendlist") = "usable"
          /\ \E how \in {"exception", "undefined"} : Ends(how)

StartConsole ==
    /\ main = "start_console"
    /\ main' = "read_pool_size"
    /\ console' = "prompt"
    /\ UNCHANGED <<ended, bits_in_16bits, props, protocol, pool, known, unwritten, disk>>

\* Outside of the try block, like MakeDht, but with the console running.
ReadPoolSize ==
    /\ main = "read_pool_size"
    /\ IF Read("network.thread_pool_size") = "usable"
       THEN /\ main' = "create"
            /\ props' = WithRead({"network.thread_pool_size"})
            /\ UNCHANGED <<ended, bits_in_16bits, console, protocol, pool, known, unwritten, disk>>
       ELSE Ends("exception")

\* An exception of create, or of the start of a thread, is caught.
CreateProtocol ==
    /\ main = "create"
    /\ main' = "ping_all"
    /\ \/ UNCHANGED <<protocol, pool>>
       \/ /\ protocol' = "created"
          /\ pool' \in BOOLEAN
    /\ UNCHANGED <<ended, bits_in_16bits, props, console, known, unwritten, disk>>

\* Pings everyone, if need be through the null protocol.
PingAll ==
    /\ main = "ping_all"
    /\ IF known /\ protocol = "null"
       THEN Ends("undefined")
       ELSE /\ main' = "join_console"
            /\ UNCHANGED <<ended, memory, unwritten, disk>>

-----------------------------------------------------------------------------
\* The console, and the pool threads.

\* "search" and "share" send to the nodes that are known.
ConsoleCommand ==
    /\ console = "prompt"
    /\ known /\ protocol = "null"
    /\ Ends("undefined")

ConsoleQuit ==
    /\ console = "prompt"
    /\ console' = "done"
    /\ UNCHANGED <<main, ended, bits_in_16bits, props, protocol, pool, known, unwritten, disk>>

\* At the end of its input readline returns NULL again and again.
ConsoleEndOfInput ==
    /\ console = "prompt"
    /\ console' = "spins"
    /\ UNCHANGED <<main, ended, bits_in_16bits, props, protocol, pool, known, unwritten, disk>>

\* A datagram of a node that was not known.
HearFromNode ==
    /\ pool
    /\ ~known
    /\ known' = TRUE
    /\ UNCHANGED <<main, ended, bits_in_16bits, props, console, protocol, pool, unwritten, disk>>

-----------------------------------------------------------------------------
\* Shutdown.

JoinConsole ==
    /\ main = "join_console"
    /\ console = "done"
    /\ main' = "interrupt"
    /\ UNCHANGED <<ended, memory, unwritten, disk>>

\* Faulty variant of InterruptPool: waits for all threads in the pool to exit.
JoinPool ==
    /\ main = "interrupt"
    /\ ~pool
    /\ main' = "save_config"
    /\ UNCHANGED <<ended, memory, unwritten, disk>>

\* io_service::run is no interruption point: the pool threads go on.
InterruptPool ==
    /\ main = "interrupt"
    /\ main' = "save_config"
    /\ UNCHANGED <<ended, memory, unwritten, disk>>

\* Faulty variant of OpenConfig: a line for every parameter there could be.
OpenConfigAll ==
    /\ main = "save_config"
    /\ main' = "write"
    /\ file' = [params |-> NoParams, odd |-> FALSE, long |-> FALSE]
    /\ unwritten' = Keys
    /\ UNCHANGED <<ended, memory, users_file, cut>>

\* Faulty variant of OpenConfig: a line for every parameter that main has read.
OpenConfigRead ==
    /\ main = "save_config"
    /\ main' = "write"
    /\ file' = [params |-> NoParams, odd |-> FALSE, long |-> FALSE]
    /\ unwritten' = ReadKeys
    /\ UNCHANGED <<ended, memory, users_file, cut>>

\* The ofstream truncates the file when it opens it.
OpenConfig ==
    /\ main = "save_config"
    /\ main' = "write"
    /\ file' = [params |-> NoParams, odd |-> FALSE, long |-> FALSE]
    /\ unwritten' = DOMAIN props
    /\ UNCHANGED <<ended, memory, users_file, cut>>

\* A line, flushed by std::endl; props is in no order.  With it the file may get
\* as long as load_config's buffer.
WriteLine(k) ==
    /\ main = "write"
    /\ k \in unwritten
    /\ \E long \in {file.long, TRUE} :
          file' = [file EXCEPT !.long = long, !.params =
                      [j \in DOMAIN @ \cup {k} |-> IF j = k THEN props[k] ELSE @[j]]]
    /\ unwritten' = unwritten \ {k}
    /\ UNCHANGED <<main, ended, memory, users_file, cut>>

CloseConfig ==
    /\ main = "write"
    /\ unwritten = {}
    /\ main' = "return"
    /\ UNCHANGED <<ended, memory, unwritten, disk>>

\* io_service is destroyed first, under the pool threads that still run.
Return ==
    /\ main = "return"
    /\ \/ Ends("clean")
       \/ pool /\ Ends("undefined")

-----------------------------------------------------------------------------
\* The process is killed, or one of its threads ends it.
Kill ==
    /\ main # "off"
    /\ Ends("killed")

Main ==
    \/ init_util \/ load_config \/ MakeDht \/ LoadFriends \/ StartConsole \/ ReadPoolSize
    \/ CreateProtocol \/ PingAll
    \/ JoinConsole \/ InterruptPool \/ OpenConfig \/ CloseConfig \/ Return
    \/ \E k \in Keys : WriteLine(k)

Console == ConsoleCommand \/ ConsoleQuit \/ ConsoleEndOfInput

Next == Start \/ Main \/ Console \/ HearFromNode \/ Kill

Spec == Init /\ [][Next]_vars

\* main runs on.
FairSpec == Spec /\ WF_vars(Main)

-----------------------------------------------------------------------------
\* save_config has a value for every line it still has to write
\* (Config.cpp:85-90); and all has its type.
TypeOK ==
    /\ main \in {"off", "init_util", "load_config", "make_dht", "load_friends_list",
                 "start_console", "read_pool_size", "create", "ping_all",
                 "join_console", "interrupt", "save_config", "write", "return"}
    /\ bits_in_16bits \in [0 .. HALF_WORD - 1 -> Nat]
    /\ ended \in {"not_started", "clean", "exception", "undefined", "killed"}
    /\ file \in File
    /\ DOMAIN props \subseteq Keys /\ \A k \in DOMAIN props : props[k] \in Values
    /\ unwritten \subseteq DOMAIN props
    /\ console \in {"off", "prompt", "spins", "done"}
    /\ protocol \in {"null", "created"}
    /\ pool \in BOOLEAN
    /\ known \in BOOLEAN
    /\ users_file \in File
    /\ cut \in BOOLEAN

(***************************************************************************)
(* When the first node is marked as seen, the table is there, and with it  *)
(* bit_distance counts every bit in which two hashes differ, and none      *)
(* twice: it is the distance of Messages (util.cpp:56-99, main.cpp:37-43). *)
(***************************************************************************)
DistanceCountsBits ==
    main = "load_friends_list" =>
        \A h1, h2 \in NodeIds :
            bit_distance_by_words(bits_in_16bits, h1, h2) = bit_distance(Ones(h1), Ones(h2))

(***************************************************************************)
(* However a process ends, unless it ends while it saves: the file has the *)
(* parameters that the user wrote, and otherwise nothing but empty ones    *)
(* that main has asked for (Config.cpp:67-93, main.cpp:39-80).             *)
(***************************************************************************)
ParametersSurvive ==
    ~Saving /\ ~cut =>
        /\ \A k \in DOMAIN users_file.params :
              k \in DOMAIN file.params /\ file.params[k] = users_file.params[k]
        /\ \A k \in DOMAIN file.params \ DOMAIN users_file.params :
              k \in ReadKeys /\ file.params[k] = ""

\* What main needs of the file to get to the console.
Startable(f) ==
    ~f.odd /\ "network.port" \in DOMAIN f.params /\ f.params["network.port"] = "usable"

(***************************************************************************)
(* A save that is cut before it has written the port leaves a file with    *)
(* which no process gets to the console, and none that could repair it     *)
(* gets to save_config (Config.cpp:83, main.cpp:41).                       *)
(***************************************************************************)
DamageIsPermanent ==
    [](main = "off" /\ ~Startable(file) => [](console = "off" /\ ~Startable(file)))

(***************************************************************************)
(* After "quit" the process ends, although pool threads that nobody can    *)
(* interrupt are still running (main.cpp:73-82).                           *)
(***************************************************************************)
QuitEnds == console = "done" ~> main = "off"

=============================================================================
