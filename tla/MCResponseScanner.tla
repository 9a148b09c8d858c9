--------------------------- MODULE MCResponseScanner ---------------------------
(* ResponseScanner with at most two disturbances before the answer, and the   *)
(* sizes of frames for every protocol with small buffers.                     *)
EXTENDS ResponseScanner, FrameSizes

\* From nothing to more than any frame has room for.
DataSizes == 0..34

\* An admitted request is encoded, and its size is the one foreseen.
ASSUME RequestsFit ==
  \A c \in ProtocolConfigs, n \in DataSizes :
    /\ RequestFrameSize(c, n, RequestPayloadSize(c, n)) = RequestWireSize(c, n)
    /\ RequestAdmitted(c, n) =>
         \A doubled \in 0..RequestPayloadSize(c, n) : RequestEncodes(c, n, doubled)

\* An answer to an admitted request fits.
ASSUME AnswersFit ==
  \A c \in ProtocolConfigs, n \in DataSizes : ResponseAdmitted(c, n) =>
    /\ \A doubled \in 0..AnswerPayloadSize(n) :
         SuccessFrameSize(c, n, doubled) <= MaxResponseFrameBytes
    /\ \A doubled \in 0..AnswerPayloadSize(0) :
         ErrorFrameSize(c, doubled) <= MaxResponseFrameBytes
=============================================================================
