------------------------------- MODULE Logger -------------------------------
(***************************************************************************)
(* The static logger of logger.c: zeroed when the library is loaded, set   *)
(* up by init_logger, then changed by set_log_level and through the two    *)
(* fields that the ctypes structure Logger mirrors.  The library logs one  *)
(* DEBUG line in every malloc_graph and free_graph.  The Python package    *)
(* calls init_logger when it is imported, before a client can call         *)
(* anything; a C client calls it whenever it likes.                        *)
(***************************************************************************)
EXTENDS Integers

CONSTANTS
  INT_MAX,   (* largest C int                                              *)
  Levels,    (* Python ints that clients pass to set_log_level             *)
  None       (* nothing asked for; nothing written                         *)

UINT_MAX == 2 * INT_MAX + 1
ERROR == 0
INFO == 1
DEBUG == 2

ASSUME LevelsAssumption ==
  INT_MAX \in Nat /\ DEBUG <= INT_MAX /\ Levels \subseteq Int /\ None \notin Int

VARIABLES
  client,   (* who uses the library: "python" or "c"                       *)
  log_level, print_location,  (* fields of static_logger                   *)
  outputs,  (* its three streams: "null" or "std"                          *)
  asked,    (* history: what set_log_level was last called with since      *)
            (* init_logger, or None                                        *)
  wrote     (* the line written by the last call, or None                  *)

vars == <<client, log_level, print_location, outputs, asked, wrote>>

Init ==
  /\ client \in {"python", "c"}
  /\ log_level = 0 /\ print_location = 0 /\ outputs = "null"
  /\ asked = None /\ wrote = None
-----------------------------------------------------------------------------
(* An unsigned as the c_int that a ctypes structure reads it through.      *)
CInt(v) == IF v <= INT_MAX THEN v ELSE v - (UINT_MAX + 1)

(* Mutations: a negative level is taken for the lowest; levels are         *)
(* compared as signed; the package does not call init_logger first.        *)
Clamped(v) == IF v < 0 THEN ERROR ELSE v % (UINT_MAX + 1)
ComparedSigned(level) == CInt(log_level) >= level
NotOnImport == TRUE

(* The enum is an unsigned int, as it has no negative member.              *)
CLevel(v) == v % (UINT_MAX + 1)

Enabled(level) == log_level >= level

Line(level, location, streams) ==
  [level |-> level, located |-> location = 1, to |-> streams]

(* fputs to a stream that is NULL: the process does not survive it.        *)
Crashed == wrote # None /\ wrote.to = "null"

Imported == client = "python" => outputs = "std"
Ready == ~Crashed /\ Imported

InitLogger ==
  /\ ~Crashed /\ (client = "python" => outputs = "null")
  /\ print_location' = 1 /\ log_level' = INFO /\ outputs' = "std"
  /\ asked' = None /\ wrote' = Line(INFO, 1, "std")
  /\ UNCHANGED client

SetLogLevel(v) ==
  /\ Ready
  /\ log_level' = CLevel(v) /\ asked' = v /\ wrote' = None
  /\ UNCHANGED <<client, print_location, outputs>>

SetPrintLocation(v) ==
  /\ Ready
  /\ print_location' = v /\ wrote' = None
  /\ UNCHANGED <<client, log_level, outputs, asked>>

(* malloc_graph or free_graph: LOG_DEBUG.                                  *)
GraphCall ==
  /\ Ready
  /\ wrote' = IF Enabled(DEBUG) THEN Line(DEBUG, print_location, outputs) ELSE None
  /\ UNCHANGED <<client, log_level, print_location, outputs, asked>>

Next ==
  \/ InitLogger
  \/ \E v \in Levels : SetLogLevel(v)
  \/ \E v \in {0, 1} : SetPrintLocation(v)
  \/ GraphCall

Spec == Init /\ [][Next]_vars
-----------------------------------------------------------------------------
(* The level is set through a c_uint and read through a c_int: a client    *)
(* reads back every int that it set, also a negative one.                  *)
LevelReadBack == asked \in -(INT_MAX + 1)..INT_MAX => CInt(log_level) = asked

(* Without set_log_level there are no DEBUG lines.  After it, a client has *)
(* them unless it asked for ERROR or INFO: also when it asked for -1, as   *)
(* the levels are compared as unsigned, although it reads -1 back.         *)
LevelInForce ==
  /\ asked = None => ~Enabled(DEBUG)
  /\ asked \in -(INT_MAX + 1)..INT_MAX => (Enabled(DEBUG) <=> asked \notin {ERROR, INFO})

(* No client of the package ever makes the library write to the streams of *)
(* a logger that has not been set up.  A C client does so only by asking   *)
(* for more than INFO before init_logger: malloc_graph and free_graph      *)
(* alone are safe, because the zeroed level is ERROR.                      *)
NullStreamsUnused ==
  Crashed => client = "c" /\ asked \notin {None, ERROR, INFO}
=============================================================================
