---------------------------- MODULE EvidenceImages ----------------------------
(***************************************************************************)
(* The files that an attempt writes beside a video while it is analysed: a *)
(* line of detections for every analysed frame, a frame of the preview,    *)
(* and an evidence image where a violation starts or, less often, where an *)
(* object was detected with confidence.  At most MaxEvidence images are    *)
(* stored.                                                                 *)
(***************************************************************************)
EXTENDS Integers, FiniteSets

CONSTANTS Stride,           \* DETECTOR_FRAME_STRIDE
          PreviewEnabled,
          MaxEvidence,      \* MAX_EVIDENCE_FRAMES
          Cooldown,         \* EVIDENCE_COOLDOWN_FRAMES
          MaxVideoFrames    \* bound: frames of a video

ASSUME EvidenceAssumption == /\ Stride \in Nat \ {0}
                             /\ PreviewEnabled \in BOOLEAN
                             /\ MaxEvidence \in Nat
                             /\ Cooldown \in Nat
                             /\ MaxVideoFrames \in Nat

VARIABLES videoFrame,       \* number of the last frame
          analyzedFrames,
          previewFrames,    \* frames of the preview
          evidence,         \* the frames in evidence_keys
          lastEvidence,     \* last_evidence_frame; 0 for none
          startedIn,        \* history: the frames in which a violation started
          confidentIn       \* history: those with a confident detection

evidenceVars == <<videoFrame, analyzedFrames, previewFrames, evidence, lastEvidence,
                  startedIn, confidentIn>>

VideoFrames == 1..MaxVideoFrames

EvidenceTypeOK == /\ videoFrame \in 0..MaxVideoFrames
                  /\ analyzedFrames \in Nat
                  /\ previewFrames \in Nat
                  /\ evidence \subseteq 1..videoFrame
                  /\ lastEvidence \in 0..videoFrame
                  /\ startedIn \subseteq 1..videoFrame
                  /\ confidentIn \subseteq 1..videoFrame

EvidenceInit == /\ videoFrame = 0
                /\ analyzedFrames = 0
                /\ previewFrames = 0
                /\ evidence = {}
                /\ lastEvidence = 0
                /\ startedIn = {}
                /\ confidentIn = {}

-------------------------------------------------------------------------------

Analyzed(f) == (f - 1) % Stride = 0

Full == MaxEvidence = 0 \/ Cardinality(evidence) >= MaxEvidence

\* Mutant: the cooldown holds for violations, too.
WorthAfterCooldown(f, starts, confident) ==
    (starts \/ confident) /\ (lastEvidence # 0 => f - lastEvidence >= Cooldown)

\* A start is worth an image, a confident detection only after the cooldown.
Worth(f, starts, confident) ==
    starts \/ (confident /\ (lastEvidence # 0 => f - lastEvidence >= Cooldown))

Store(f) == /\ evidence' = evidence \cup {f}
            /\ lastEvidence' = f

\* The next frame of the video: process_frame and write.
WriteFrame(starts, confident) ==
    LET f == videoFrame + 1
    IN  /\ videoFrame < MaxVideoFrames
        /\ videoFrame' = f
        /\ IF Analyzed(f)
           THEN /\ analyzedFrames' = analyzedFrames + 1
                /\ previewFrames' = IF PreviewEnabled THEN previewFrames + 1 ELSE previewFrames
                /\ IF ~Full /\ Worth(f, starts, confident) THEN Store(f)
                   ELSE UNCHANGED <<evidence, lastEvidence>>
                /\ startedIn' = IF starts THEN startedIn \cup {f} ELSE startedIn
                /\ confidentIn' = IF confident THEN confidentIn \cup {f} ELSE confidentIn
           ELSE UNCHANGED <<analyzedFrames, previewFrames, evidence, lastEvidence,
                            startedIn, confidentIn>>

\* A new attempt opens a writer of its own.
NewWriter == /\ videoFrame' = 0
             /\ analyzedFrames' = 0
             /\ previewFrames' = 0
             /\ evidence' = {}
             /\ lastEvidence' = 0
             /\ startedIn' = {}
             /\ confidentIn' = {}

EvidenceNext == \/ \E starts, confident \in BOOLEAN : WriteFrame(starts, confident)
                \/ NewWriter

EvidenceSpec == EvidenceInit /\ [][EvidenceNext]_evidenceVars

-------------------------------------------------------------------------------

\* Of the images before f, none is nearer than the cooldown.
Cool(f) == \A g \in evidence : g < f => g + Cooldown <= f

\* The images are exactly those of the first frames that deserve one, up to the
\* limit: a start of a violation has an image unless the limit was reached
\* before it, and no detection stands within the cooldown after another image.
EvidenceRule ==
    \A f \in 1..videoFrame :
        f \in evidence <=> /\ Cardinality({g \in evidence : g < f}) < MaxEvidence
                           /\ f \in startedIn \/ (f \in confidentIn /\ Cool(f))

===============================================================================
