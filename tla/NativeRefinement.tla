-------------------------- MODULE NativeRefinement --------------------------
(* NativeControl implements ControlContract: the refinement mapping.        *)
EXTENDS NativeControl

\* An empty pendingControl is told from any record.
ASSUME RecordAssumption ==
  None \notin [revision : Nat, cal : BOOLEAN, late : BOOLEAN]

\* Who has the record of the pending mutation, read off the mailbox and the
\* two acknowledgement atomics.
Holder ==
  IF pendingControl = None THEN "nobody"
  ELSE IF nativeCommand # None THEN "mailbox"
  ELSE IF nativeAppliedRevision = pendingControl.revision THEN "applied"
  ELSE IF nativeFailedRevision = pendingControl.revision THEN "failed"
  ELSE "render"

\* The part of a configuration a PATCH sets.
Patched(config) == [jpeg |-> config.jpeg, cal |-> config.cal]

Contract == INSTANCE ControlContract WITH
  desiredConfig <- Patched(desiredConfig),
  appliedConfig <- Patched(appliedConfig),
  pendingControl <- IF pendingControl = None THEN None
                    ELSE [revision |-> pendingControl.revision,
                          cal |-> pendingControl.cal,
                          late |-> pendingControl.late],
  holder <- Holder,
  inUse <- [jpeg |-> jpegQuality, cal |-> calibrationMetadata.cal],
  calibrationRevision <- calibrationMetadata.revision

\* The mailbox, the atomics and the threads that read them apart implement the
\* contract: every step of the executor, the render thread, the pacer and the
\* ROS worker is one step of it or none.  A mutation that is lost, applied
\* twice, dropped although the render thread has it, or a calibration that is
\* answered unpublished, is a step the contract does not have.
ContractIsKept == Contract!Spec
=============================================================================
