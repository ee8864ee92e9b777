---------------------------- MODULE LoggerProofs ----------------------------
(***************************************************************************)
(* Logger for ints of every width: what set_log_level is asked for decides *)
(* what is read back and whether DEBUG lines are written, and when they    *)
(* can go to the streams of a logger that has not been set up.             *)
(***************************************************************************)
EXTENDS Logger, TLAPS

(* log_level is the converted argument of the last set_log_level, or what  *)
(* loading the library and init_logger leave there.                        *)
LevelOK ==
  /\ asked = None => log_level \in {ERROR, INFO}
  /\ asked # None => asked \in Levels /\ log_level = CLevel(asked)

LEMMA CLevelSmall ==
  ASSUME NEW v \in 0..UINT_MAX
  PROVE  CLevel(v) = v
  <1>1. UINT_MAX \in Nat
    BY LevelsAssumption DEF UINT_MAX
  <1> HIDE DEF UINT_MAX
  <1> QED BY <1>1 DEF CLevel

LEMMA CLevelNegative ==
  ASSUME NEW v \in -(UINT_MAX + 1)..-1
  PROVE  CLevel(v) = v + UINT_MAX + 1
  <1>1. UINT_MAX \in Nat
    BY LevelsAssumption DEF UINT_MAX
  <1> HIDE DEF UINT_MAX
  <1> QED BY <1>1 DEF CLevel

LEMMA LevelStep == LevelOK /\ [Next]_vars => LevelOK'
  <1> SUFFICES ASSUME LevelOK, [Next]_vars PROVE LevelOK'
    OBVIOUS
  <1>1. CASE InitLogger
    BY <1>1 DEF InitLogger, LevelOK
  <1>2. ASSUME NEW v \in Levels, SetLogLevel(v) PROVE LevelOK'
    BY <1>2, LevelsAssumption DEF SetLogLevel, LevelOK
  <1>3. CASE UNCHANGED <<log_level, asked>>
    BY <1>3 DEF LevelOK
  <1> QED BY <1>1, <1>2, <1>3 DEF Next, SetPrintLocation, GraphCall, vars

LEMMA Invariance == Spec => []LevelOK
  <1>1. Init => LevelOK
    BY DEF Init, LevelOK, ERROR
  <1> QED BY <1>1, LevelStep, PTL DEF Spec

(* For ints of every width: a level is read back as the int that was set,  *)
(* although it goes in through a c_uint and comes out through a c_int.     *)
THEOREM LevelReadBackCorrect == Spec => []LevelReadBack
  <1>1. LevelOK => LevelReadBack
    <2> SUFFICES ASSUME LevelOK, asked \in -(INT_MAX + 1)..INT_MAX
                 PROVE  CInt(log_level) = asked
      BY DEF LevelReadBack
    <2>1. INT_MAX \in Nat /\ UINT_MAX = 2 * INT_MAX + 1
      BY LevelsAssumption DEF UINT_MAX
    <2>2. log_level = CLevel(asked)
      BY LevelsAssumption DEF LevelOK
    <2>3. CASE asked \in 0..INT_MAX
      BY <2>1, <2>2, <2>3, CLevelSmall DEF CInt
    <2>4. CASE asked \in -(INT_MAX + 1)..-1
      <3>1. log_level = asked + UINT_MAX + 1
        BY <2>1, <2>2, <2>4, CLevelNegative
      <3> QED BY <2>1, <2>4, <3>1 DEF CInt
    <2> QED BY <2>1, <2>3, <2>4
  <1> QED BY <1>1, Invariance, PTL

(* What the level does, in terms of what was asked for.                    *)
LEMMA EnabledBy ==
  ASSUME LevelOK
  PROVE  LevelInForce /\ (Enabled(DEBUG) => asked \notin {None, ERROR, INFO})
  <1>1. INT_MAX \in Nat /\ UINT_MAX = 2 * INT_MAX + 1 /\ 2 <= INT_MAX
    BY LevelsAssumption DEF DEBUG, UINT_MAX
  <1>2. CASE asked = None
    BY <1>2, LevelsAssumption DEF LevelOK, LevelInForce, Enabled, ERROR, INFO, DEBUG
  <1>3. CASE asked # None
    <2>1. log_level = CLevel(asked) /\ asked \in Int
      BY <1>3, LevelsAssumption DEF LevelOK
    <2>2. asked \in {ERROR, INFO} => ~Enabled(DEBUG)
      <3>1. ERROR \in 0..UINT_MAX /\ INFO \in 0..UINT_MAX
        BY <1>1 DEF ERROR, INFO
      <3> QED BY <2>1, <3>1, CLevelSmall DEF Enabled, ERROR, INFO, DEBUG
    <2>3. asked \in -(INT_MAX + 1)..INT_MAX /\ asked \notin {ERROR, INFO} => Enabled(DEBUG)
      <3>1. CASE asked \in 2..INT_MAX
        <4>1. asked \in 0..UINT_MAX
          BY <1>1, <3>1
        <4> QED BY <2>1, <3>1, <4>1, CLevelSmall DEF Enabled, DEBUG
      <3>2. CASE asked \in -(INT_MAX + 1)..-1
        <4>1. asked \in -(UINT_MAX + 1)..-1
          BY <1>1, <3>2
        <4>2. log_level = asked + UINT_MAX + 1
          BY <2>1, <4>1, CLevelNegative
        <4> QED BY <1>1, <3>2, <4>2 DEF Enabled, DEBUG
      <3> QED BY <2>1, <3>1, <3>2 DEF ERROR, INFO
    <2> QED BY <1>3, <2>2, <2>3 DEF LevelInForce
  <1> QED BY <1>2, <1>3

(* For ints of every width: of the clients that asked for an int, those    *)
(* that asked for something other than ERROR or INFO, a negative int too,  *)
(* and no others get DEBUG lines; nor does one that asked for nothing.     *)
THEOREM LevelInForceCorrect == Spec => []LevelInForce
  BY EnabledBy, Invariance, PTL

(* Whatever the package's clients call, and in whatever order, no line     *)
(* goes to a NULL stream; for a C client one does only if it asked for     *)
(* more than INFO before init_logger.                                      *)
THEOREM NullStreamsUnusedCorrect == Spec => []NullStreamsUnused
  <1> DEFINE Streams == client \in {"python", "c"} /\ NullStreamsUnused
  <1>1. Init => Streams
    BY DEF Init, NullStreamsUnused, Crashed
  <1>2. LevelOK /\ Streams /\ [Next]_vars => Streams'
    <2> SUFFICES ASSUME LevelOK, Streams, [Next]_vars PROVE Streams'
      OBVIOUS
    <2>1. CASE InitLogger
      BY <2>1 DEF InitLogger, Line, NullStreamsUnused, Crashed
    <2>2. CASE (\E v \in Levels : SetLogLevel(v)) \/ \E v \in {0, 1} : SetPrintLocation(v)
      BY <2>2 DEF SetLogLevel, SetPrintLocation, NullStreamsUnused, Crashed
    <2>3. CASE GraphCall
      <3>1. UNCHANGED <<client, outputs, asked>> /\ (client = "python" => outputs = "std")
        BY <2>3 DEF GraphCall, Ready, Imported
      <3>2. ASSUME Crashed' PROVE outputs = "null" /\ Enabled(DEBUG)
        BY <2>3, <3>2 DEF GraphCall, Crashed, Line
      <3>3. Enabled(DEBUG) => asked \notin {None, ERROR, INFO}
        BY EnabledBy
      <3> QED BY <3>1, <3>2, <3>3 DEF NullStreamsUnused
    <2>4. CASE UNCHANGED vars
      BY <2>4 DEF vars, NullStreamsUnused, Crashed
    <2> QED BY <2>1, <2>2, <2>3, <2>4 DEF Next
  <1> QED BY <1>1, <1>2, Invariance, PTL DEF Spec
=============================================================================
