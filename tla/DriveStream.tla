---------------------------- MODULE DriveStream ----------------------------
(***************************************************************************)
(* A file of the virtual drive on its way to a browser (read_file_stream   *)
(* and ChannelWriter in msd/ventoy_drive.rs, msd_drive_download in         *)
(* web/handlers/msd_api.rs, do_stream_read in ventoy-img-rs): a blocking   *)
(* thread reads the file piece by piece, gathers the pieces in a buffer    *)
(* and sends the buffer through a bounded channel when it is full; what is *)
(* left in it goes when the writer is dropped.  The response announces the *)
(* size the file had when it was looked up.                                *)
(***************************************************************************)
EXTENDS Integers, Sequences

CONSTANTS
    DsSizes,     \* sizes of the file
    DsBlock,     \* the buffer of do_stream_read (64 KiB)
    DsChunk,     \* STREAM_CHUNK_SIZE (64 KiB)
    DsSlots      \* the channel's capacity (8 in the code)

ASSUME DsAssumption ==
    DsSizes \subseteq Nat /\ DsBlock \in Nat \ {0} /\ DsChunk \in Nat \ {0} /\ DsSlots \in Nat \ {0}

VARIABLES
    dsSize,      \* the file
    dsRead,      \* bytes read from it
    dsPiece,     \* bytes read and not yet in the buffer
    dsBuffer,    \* ChannelWriter.buffer
    dsQueue,     \* the channel: chunks by their size, 0 for an error
    dsThread,    \* where the thread is
    dsSeen,      \* what the browser has received
    dsClient     \* "here", "served", "cut" by an error, or "gone"

dsVars == <<dsSize, dsRead, dsPiece, dsBuffer, dsQueue, dsThread, dsSeen, dsClient>>

DsInit ==
    /\ dsSize \in DsSizes
    /\ dsRead = 0 /\ dsPiece = 0 /\ dsBuffer = 0
    /\ dsQueue = <<>> /\ dsThread = "read"
    /\ dsSeen = 0 /\ dsClient = "here"

\* ExfatFileReader::read fills the buffer, from as many clusters as it takes,
\* or reads what is left of the file.
DsReads ==
    /\ dsThread = "read" /\ dsRead < dsSize
    /\ LET k == IF dsSize - dsRead < DsBlock THEN dsSize - dsRead ELSE DsBlock IN
       dsRead' = dsRead + k /\ dsPiece' = k
    /\ dsThread' = "copy"
    /\ UNCHANGED <<dsSize, dsBuffer, dsQueue, dsSeen, dsClient>>

\* The file cannot be opened or read on.
DsReadFails ==
    /\ dsThread = "read" /\ dsThread' = "error"
    /\ UNCHANGED <<dsSize, dsRead, dsPiece, dsBuffer, dsQueue, dsSeen, dsClient>>

\* ChannelWriter::write: as much as fits is copied; the buffer goes when full.
DsCopies ==
    /\ dsThread = "copy"
    /\ LET space == DsChunk - dsBuffer
           n == IF dsPiece < space THEN dsPiece ELSE space IN
       /\ dsBuffer' = dsBuffer + n /\ dsPiece' = dsPiece - n
       /\ dsThread' = CASE dsBuffer + n = DsChunk -> "send"
                        [] OTHER -> "read"
    /\ UNCHANGED <<dsSize, dsRead, dsQueue, dsSeen, dsClient>>

\* Mutant of DsSends: a full channel is waited for although nobody reads it.
DsSends_Deaf ==
    /\ dsThread = "send"
    /\ Len(dsQueue) < DsSlots
    /\ dsQueue' = Append(dsQueue, dsBuffer)
    /\ dsThread' = IF dsPiece > 0 THEN "copy" ELSE "read"
    /\ dsBuffer' = 0
    /\ UNCHANGED <<dsSize, dsRead, dsPiece, dsSeen, dsClient>>

\* flush_buffer waits for a place in the channel; when the receiver is gone
\* the copy ends with an error, and the buffer is lost.
DsSends ==
    /\ dsThread = "send"
    /\ \/ /\ dsClient = "here" /\ Len(dsQueue) < DsSlots
          /\ dsQueue' = Append(dsQueue, dsBuffer)
          /\ dsThread' = IF dsPiece > 0 THEN "copy" ELSE "read"
       \/ /\ dsClient # "here"
          /\ dsThread' = "error" /\ UNCHANGED dsQueue
    /\ dsBuffer' = 0
    /\ UNCHANGED <<dsSize, dsRead, dsPiece, dsSeen, dsClient>>

\* The error is sent on, if there is still somebody to send it to.
DsReports ==
    /\ dsThread = "error"
    /\ \/ /\ dsClient = "here" /\ Len(dsQueue) < DsSlots
          /\ dsQueue' = Append(dsQueue, 0)
       \/ dsClient # "here" /\ UNCHANGED dsQueue
    /\ dsThread' = "drop" /\ dsPiece' = 0
    /\ UNCHANGED <<dsSize, dsRead, dsBuffer, dsSeen, dsClient>>

\* do_stream_read ends its loop when nothing was read.
DsEnds ==
    /\ dsThread = "read" /\ dsRead = dsSize
    /\ dsThread' = "drop"
    /\ UNCHANGED <<dsSize, dsRead, dsPiece, dsBuffer, dsQueue, dsSeen, dsClient>>

\* The writer is dropped: the rest of the buffer is sent, the channel closed.
DsDrops ==
    /\ dsThread = "drop"
    /\ \/ /\ dsBuffer > 0 /\ dsClient = "here" /\ Len(dsQueue) < DsSlots
          /\ dsQueue' = Append(dsQueue, dsBuffer)
       \/ (dsBuffer = 0 \/ dsClient # "here") /\ UNCHANGED dsQueue
    /\ dsBuffer' = 0 /\ dsThread' = "over"
    /\ UNCHANGED <<dsSize, dsRead, dsPiece, dsSeen, dsClient>>

\* The response body: chunks as they come, an end when the channel is closed
\* and empty, an abort at an error.
ClientReads ==
    /\ dsClient = "here"
    /\ \/ /\ dsQueue # <<>>
          /\ dsSeen' = dsSeen + Head(dsQueue) /\ dsQueue' = Tail(dsQueue)
          /\ dsClient' = IF Head(dsQueue) = 0 THEN "cut" ELSE "here"
       \/ /\ dsQueue = <<>> /\ dsThread = "over"
          /\ dsClient' = "served" /\ UNCHANGED <<dsSeen, dsQueue>>
    /\ UNCHANGED <<dsSize, dsRead, dsPiece, dsBuffer, dsThread>>

\* The browser closes the connection: the receiver is dropped.
ClientGoes ==
    /\ dsClient = "here"
    /\ dsClient' = "gone" /\ dsQueue' = <<>>
    /\ UNCHANGED <<dsSize, dsRead, dsPiece, dsBuffer, dsThread, dsSeen>>

DsSteps == DsReads \/ DsCopies \/ DsSends \/ DsReports \/ DsEnds \/ DsDrops
DsNext == DsSteps \/ DsReadFails \/ ClientReads \/ ClientGoes

\* The thread runs on the blocking pool; a browser may stop reading for good.
DsTurn(i) ==
    CASE i = 1 -> DsSteps
      [] OTHER -> FALSE

DsFairness == \A i \in 1..1 : WF_dsVars(DsTurn(i))

DsSpec == DsInit /\ [][DsNext]_dsVars /\ DsFairness

-----------------------------------------------------------------------------
\* A browser that is told of no error has the whole file: the last piece is
\* not lost with the buffer, whatever the sizes of the pieces were (Drop of
\* ChannelWriter).
StreamIsWhole == dsClient = "served" => dsSeen = dsSize

\* A browser that leaves does not keep the blocking thread, and the image it
\* has open, for ever, even when the channel is full (flush_buffer).
ThreadGoesToo == []<>(dsClient # "gone" \/ dsThread = "over")
=============================================================================
