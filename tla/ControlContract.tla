--------------------------- MODULE ControlContract ---------------------------
(***************************************************************************)
(* What a camera source promises the clients of its control endpoint about *)
(* mutations (docs/source_control.md), without the threads, the mailbox    *)
(* and the acknowledgement atomics that keep the promise: one mutation at  *)
(* a time; it is applied at most once; its deadline takes it back only     *)
(* while the native owner has not taken it; it is answered once, by what   *)
(* the owner did; a calibration is answered when the topic carries it.     *)
(*                                                                         *)
(* NativeRefinement shows that NativeControl implements this, and          *)
(* ControlPlane puts it behind the shared endpoint.                        *)
(***************************************************************************)
EXTENDS Naturals

CONSTANTS
  Jpegs,          \* values of jpeg_quality
  Calibrations,   \* CameraInfo records
  InitJpeg, InitCal,
  None            \* no mutation

VARIABLES
  desiredRevision, desiredConfig,   \* what was asked for last
  appliedRevision, appliedConfig,   \* what the status reports as applied
  pendingControl,                   \* the mutation that is not answered yet
  holder,                           \* who has its record
  inUse,                            \* what the native owner works with
  calibrationRevision,              \* the mutation inUse.cal came with
  publishedCalibrationRevision      \* the one the topic carries

vars == <<desiredRevision, desiredConfig, appliedRevision, appliedConfig,
          pendingControl, holder, inUse, calibrationRevision,
          publishedCalibrationRevision>>

Authored == [jpeg |-> InitJpeg, cal |-> InitCal]

Init ==
  /\ desiredRevision = 1 /\ appliedRevision = 1
  /\ desiredConfig = Authored /\ appliedConfig = Authored /\ inUse = Authored
  /\ pendingControl = None /\ holder = "nobody"
  /\ calibrationRevision = 1 /\ publishedCalibrationRevision = 0

\* A mutation is accepted: a PATCH may change the configuration (its
\* calibration only when it carries one), the other operations do not.
Admit(config, carriesCal) ==
  /\ pendingControl = None
  /\ carriesCal \/ config.cal = desiredConfig.cal
  /\ desiredRevision' = desiredRevision + 1
  /\ desiredConfig' = config
  /\ pendingControl' = [revision |-> desiredRevision', cal |-> carriesCal,
                        late |-> FALSE]
  /\ holder' = "mailbox"
  /\ UNCHANGED <<appliedRevision, appliedConfig, inUse, calibrationRevision,
                 publishedCalibrationRevision>>

\* Its deadline passes or its caller goes away.
Deadline ==
  /\ pendingControl # None /\ ~pendingControl.late
  /\ pendingControl' = [pendingControl EXCEPT !.late = TRUE]
  /\ UNCHANGED <<desiredRevision, desiredConfig, appliedRevision,
                 appliedConfig, holder, inUse, calibrationRevision,
                 publishedCalibrationRevision>>

\* The native owner takes the record, and so applies its configuration; a
\* PATCH is done by that, the other operations are acknowledged later.
Take ==
  /\ holder = "mailbox"
  /\ holder' \in {"render", "applied"}
  /\ pendingControl.cal => holder' = "applied"
  /\ IF pendingControl.cal
       THEN /\ inUse' = desiredConfig
            /\ calibrationRevision' = pendingControl.revision
       ELSE /\ inUse' = [inUse EXCEPT !.jpeg = desiredConfig.jpeg]
            /\ UNCHANGED calibrationRevision
  /\ UNCHANGED <<desiredRevision, desiredConfig, appliedRevision,
                 appliedConfig, pendingControl, publishedCalibrationRevision>>

\* ... acknowledges it, or its failure.
Acknowledge ==
  /\ holder = "render"
  /\ holder' \in {"applied", "failed"}
  /\ UNCHANGED <<desiredRevision, desiredConfig, appliedRevision,
                 appliedConfig, pendingControl, inUse, calibrationRevision,
                 publishedCalibrationRevision>>

\* The topic gets the authored record or the latest one, and never goes back.
PublishCalibration ==
  /\ publishedCalibrationRevision' \in {1, calibrationRevision}
  /\ publishedCalibrationRevision < publishedCalibrationRevision'
  /\ UNCHANGED <<desiredRevision, desiredConfig, appliedRevision,
                 appliedConfig, pendingControl, holder, inUse,
                 calibrationRevision>>

Answered ==
  /\ pendingControl' = None /\ holder' = "nobody"
  /\ UNCHANGED <<desiredRevision, desiredConfig, inUse, calibrationRevision,
                 publishedCalibrationRevision>>

AnswerCompleted ==
  /\ holder = "applied"
  /\ pendingControl.cal =>
       publishedCalibrationRevision = pendingControl.revision
  /\ appliedRevision' = pendingControl.revision
  /\ appliedConfig' = desiredConfig
  /\ Answered

AnswerFailed ==
  /\ holder = "failed"
  /\ UNCHANGED <<appliedRevision, appliedConfig>>
  /\ Answered

\* 504: the caller was late and the native owner never had the record.
AnswerDropped ==
  /\ holder = "mailbox" /\ pendingControl.late
  /\ UNCHANGED <<appliedRevision, appliedConfig>>
  /\ Answered

Answer == AnswerCompleted \/ AnswerFailed \/ AnswerDropped

Next ==
  \/ \E jpeg \in Jpegs, cal \in Calibrations, carriesCal \in BOOLEAN :
       Admit([jpeg |-> jpeg, cal |-> cal], carriesCal)
  \/ Deadline \/ Take \/ Acknowledge \/ PublishCalibration \/ Answer

Spec == Init /\ [][Next]_vars
=============================================================================
