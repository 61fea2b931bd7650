-------------------------------- MODULE Command --------------------------------
(***************************************************************************)
(* One run of the program: Execute (cmd/root.go) around payload.Open       *)
(* (payload/input.go, header.go, payload.go), Extract and Payload.Close.   *)
(* The state is what the process holds: open files, the temporary copy of  *)
(* a compressed payload.bin, the closers of the Payload, the signal        *)
(* handler, and the exit code.                                             *)
(*                                                                         *)
(* Module Extract models the call of Extract; here it returns some result. *)
(* CommandInit to CommandSpec have their names apart from those of module  *)
(* Progress, the other part of cmd/root.go.                                *)
(***************************************************************************)
EXTENDS Integers, Sequences

CONSTANTS
  MaxInt,     \* math.MaxInt64
  MaxSigLen,  \* the largest MetadataSignatureLen, a uint32
  HeaderLen,  \* 24
  Inputs,     \* the files a user may name
  Faults      \* whether system calls may fail

\* kind: what the file starts with; entries: of a zip, in order; header: of the
\* payload in it, with its size (that of the entry, in a zip).
InputType ==
  [kind : {"missing", "short", "payload", "zip", "other"},
   entries : Seq([exact : BOOLEAN, base : BOOLEAN, empty : BOOLEAN, stored : BOOLEAN]),
   header : [magic : BOOLEAN, version : BOOLEAN, manifestLen : 0 .. 2 * MaxInt + 1,
             sigLen : 0 .. MaxSigLen, size : 0 .. MaxInt, parses : BOOLEAN]]

ASSUME CommandAssumption ==
  /\ MaxInt \in Nat /\ MaxSigLen \in Nat /\ HeaderLen \in Nat \ {0}
  /\ HeaderLen + MaxSigLen <= MaxInt
  /\ \A i \in Inputs : i \in InputType

VARIABLES
  input,        \* the file named on the command line
  flags,        \* [named, list, bars]: an argument, -l, neither -q nor -m
  pc,           \* where the program is
  handles,      \* open files: "input", "entry", "temp"
  tempFile,     \* the temporary file exists
  keptTemp,     \* removing it has failed
  ra,           \* the file the Payload reads from, or "none"
  closers,      \* p.closers
  tempPath,     \* p.tempPath is set
  notified,     \* signal.NotifyContext is in effect
  interrupted,  \* SIGINT has been sent
  err,          \* the error being reported, or "none"
  exit          \* the exit code, or -1

payload == <<ra, closers, tempPath>>
commandVars == <<input, flags, pc, handles, tempFile, keptTemp, payload,
                 notified, interrupted, err, exit>>
rest == <<input, flags, notified, interrupted, exit>>

CommandInit ==
  /\ input \in Inputs
  /\ flags \in [named : BOOLEAN, list : BOOLEAN, bars : BOOLEAN]
  /\ pc = "args"
  /\ handles = {} /\ tempFile = FALSE /\ keptTemp = FALSE
  /\ ra = "none" /\ closers = <<>> /\ tempPath = FALSE
  /\ notified = FALSE /\ interrupted = FALSE
  /\ err = "none" /\ exit = -1

Goto(label) == pc' = label

Args ==
  /\ pc = "args"
  /\ IF flags.named THEN Goto("open") /\ UNCHANGED exit ELSE Goto("exited") /\ exit' = 2
  /\ UNCHANGED <<input, flags, handles, tempFile, keptTemp, payload,
                 notified, interrupted, err>>

--------------------------------------------------------------------------------
(* Open                                                                     *)

OpenFile ==
  /\ pc = "open"
  /\ \/ /\ input.kind # "missing"
        /\ handles' = handles \cup {"input"} /\ Goto("inspect") /\ UNCHANGED err
     \/ /\ Faults \/ input.kind = "missing"
        /\ err' = "open" /\ Goto("opened") /\ UNCHANGED handles
  /\ UNCHANGED <<rest, tempFile, keptTemp, payload>>

\* f.Close() and return an error.
GiveUp(reason) ==
  /\ handles' = handles \ {"input"} /\ err' = reason /\ Goto("opened")
  /\ UNCHANGED <<rest, tempFile, keptTemp, payload>>

Step(label) == Goto(label) /\ UNCHANGED <<rest, handles, tempFile, keptTemp, payload, err>>

\* Stat and the four magic bytes.
Inspect ==
  /\ pc = "inspect"
  /\ \/ Faults /\ GiveUp("open")
     \/ input.kind = "short" /\ GiveUp("open")
     \/ input.kind = "other" /\ GiveUp("not payload")
     \/ input.kind = "payload" /\ Step("parse")
     \/ input.kind = "zip" /\ Step("zip")

\* findPayloadEntry: payload.bin itself, else the first with that base name.
FindPayloadEntry(entries) ==
  LET Pick(P(_)) == CHOOSE i \in DOMAIN entries :
                      P(entries[i]) /\ \A j \in DOMAIN entries : j < i => ~ P(entries[j])
      Exact(e) == e.exact /\ ~ e.empty
      Base(e) == (e.exact \/ e.base) /\ ~ e.empty
  IN  IF \E i \in DOMAIN entries : Exact(entries[i]) THEN Pick(Exact)
      ELSE IF \E i \in DOMAIN entries : Base(entries[i]) THEN Pick(Base)
      ELSE 0

OpenZip ==
  /\ pc = "zip"
  /\ \/ Faults /\ GiveUp("zip")
     \/ FindPayloadEntry(input.entries) = 0 /\ GiveUp("not payload")
     \/ FindPayloadEntry(input.entries) # 0 /\
          IF input.entries[FindPayloadEntry(input.entries)].stored
          THEN Step("parse") ELSE Step("entry")

\* int64(headerLen) + int64(ManifestLen) + int64(MetadataSignatureLen), which may wrap.
Wrapped(n) == ((n + MaxInt + 1) % (2 * (MaxInt + 1))) - (MaxInt + 1)

MetadataLen(h) == Wrapped(HeaderLen + Wrapped(h.manifestLen) + h.sigLen)

\* Mutant of MetadataFits: a sum that has wrapped below the header is not noticed.
MetadataFitsWrapping(h) == Wrapped(h.manifestLen) >= 0 /\ MetadataLen(h) <= h.size

MetadataFits(h) ==
  /\ Wrapped(h.manifestLen) >= 0
  /\ MetadataLen(h) >= HeaderLen
  /\ MetadataLen(h) <= h.size

\* readHeader, the sizes, and the manifest.
Accepted(h) ==
  /\ h.size >= HeaderLen /\ h.magic /\ h.version /\ h.manifestLen # 0
  /\ MetadataFits(h)
  /\ h.parses

\* Mutant of Parse: the file is not appended to the closers.
ParseForgetting ==
  /\ pc = "parse"
  /\ \/ (Faults \/ ~ Accepted(input.header)) /\ GiveUp("header")
     \/ /\ Accepted(input.header)
        /\ ra' = "input" /\ Goto("opened")
        /\ UNCHANGED <<rest, handles, tempFile, keptTemp, closers, tempPath, err>>

\* NewFromReaderAt on the file itself or on a stored entry of it.
Parse ==
  /\ pc = "parse"
  /\ \/ (Faults \/ ~ Accepted(input.header)) /\ GiveUp("header")
     \/ /\ Accepted(input.header)
        /\ ra' = "input" /\ closers' = <<"input">> /\ Goto("opened")
        /\ UNCHANGED <<rest, handles, tempFile, keptTemp, tempPath, err>>

OpenEntry ==
  /\ pc = "entry"
  /\ \/ /\ Faults /\ err' = "zip" /\ Goto("deferred") /\ UNCHANGED handles
     \/ /\ handles' = handles \cup {"entry"} /\ Goto("temp") /\ UNCHANGED err
  /\ UNCHANGED <<rest, tempFile, keptTemp, payload>>

CreateTemp ==
  /\ pc = "temp"
  /\ \/ /\ Faults /\ err' = "temp" /\ Goto("deferred") /\ UNCHANGED <<handles, tempFile>>
     \/ /\ handles' = handles \cup {"temp"} /\ tempFile' = TRUE /\ Goto("copy") /\ UNCHANGED err
  /\ UNCHANGED <<rest, keptTemp, payload>>

\* os.Remove, which may fail.
Remove ==
  \/ tempFile' = FALSE /\ UNCHANGED keptTemp
  \/ Faults /\ keptTemp' = TRUE /\ UNCHANGED tempFile

\* Mutant of CopyTemp: a failed copy returns without the cleanup.
CopyTempDirty ==
  /\ pc = "copy"
  /\ \/ Step("parse temp")
     \/ /\ Faults /\ err' = "zip" /\ Goto("deferred")
        /\ UNCHANGED <<rest, handles, tempFile, keptTemp, payload>>

CopyTemp ==
  /\ pc = "copy"
  /\ \/ Step("parse temp")
     \/ /\ Faults /\ err' = "zip" /\ Goto("deferred")
        /\ handles' = handles \ {"temp"} /\ Remove
        /\ UNCHANGED <<rest, payload>>

ParseTemp ==
  /\ pc = "parse temp"
  /\ Goto("deferred")
  /\ \/ /\ Faults \/ ~ Accepted(input.header)
        /\ err' = "header" /\ handles' = handles \ {"temp"} /\ Remove
        /\ UNCHANGED payload
     \/ /\ Accepted(input.header)
        /\ ra' = "temp" /\ closers' = <<"temp">> /\ tempPath' = TRUE
        /\ UNCHANGED <<handles, tempFile, keptTemp, err>>
  /\ UNCHANGED rest

\* The deferred rc.Close and f.Close of extractZipEntryToTemp.
Deferred ==
  /\ pc = "deferred"
  /\ handles' = handles \ {"entry", "input"}
  /\ Goto("opened")
  /\ UNCHANGED <<rest, tempFile, keptTemp, payload, err>>

--------------------------------------------------------------------------------
(* Execute, after Open                                                      *)

Opened ==
  /\ pc = "opened"
  /\ IF err # "none" THEN Goto("exited") /\ exit' = 1
     ELSE IF flags.list THEN Goto("close") /\ exit' = 0
     ELSE Goto("notify") /\ UNCHANGED exit
  /\ UNCHANGED <<input, flags, handles, tempFile, keptTemp, payload,
                 notified, interrupted, err>>

Notify ==
  /\ pc = "notify"
  /\ notified' = TRUE /\ Goto("extract")
  /\ UNCHANGED <<input, flags, handles, tempFile, keptTemp, payload,
                 interrupted, err, exit>>

\* Extract returns nil, or any error; then the bars are waited for.
ExtractReturns ==
  /\ pc = "extract"
  /\ err' \in {"none", "missing source", "extract"}
  /\ Goto(IF flags.bars THEN "bars" ELSE "report")
  /\ UNCHANGED <<rest, handles, tempFile, keptTemp, payload>>

WaitBars == pc = "bars" /\ Step("report")

Report ==
  /\ pc = "report"
  /\ exit' = IF err = "none" THEN 0 ELSE 1
  /\ Goto("stop")
  /\ UNCHANGED <<input, flags, handles, tempFile, keptTemp, payload,
                 notified, interrupted, err>>

\* Deferred functions run last in, first out: stop() before pl.Close().
Stop ==
  /\ pc = "stop"
  /\ notified' = FALSE /\ Goto("close")
  /\ UNCHANGED <<input, flags, handles, tempFile, keptTemp, payload,
                 interrupted, err, exit>>

\* Mutant of Close: the temporary file is closed and not removed.
CloseKeepsTemp ==
  /\ pc = "close"
  /\ handles' = {h \in handles : \A i \in DOMAIN closers : closers[i] # h}
  /\ closers' = <<>> /\ tempPath' = FALSE
  /\ Goto("exited")
  /\ UNCHANGED <<input, flags, tempFile, keptTemp, ra, notified, interrupted, err, exit>>

\* Closes what is in closers, whatever fails, and removes the temporary file.
Close ==
  /\ pc = "close"
  /\ handles' = {h \in handles : \A i \in DOMAIN closers : closers[i] # h}
  /\ closers' = <<>>
  /\ IF tempPath THEN Remove ELSE UNCHANGED <<tempFile, keptTemp>>
  /\ tempPath' = FALSE
  /\ Goto("exited")
  /\ UNCHANGED <<input, flags, ra, notified, interrupted, err, exit>>

\* SIGINT cancels the context of Extract while NotifyContext is in effect, and
\* kills the process otherwise.
Interrupt ==
  /\ pc \notin {"exited", "killed"} /\ ~ interrupted
  /\ interrupted' = TRUE
  /\ IF notified THEN UNCHANGED pc ELSE Goto("killed")
  /\ UNCHANGED <<input, flags, handles, tempFile, keptTemp, payload,
                 notified, err, exit>>

Opening ==
  Args \/ OpenFile \/ Inspect \/ OpenZip \/ Parse \/ OpenEntry \/ CreateTemp
    \/ CopyTemp \/ ParseTemp \/ Deferred

Running == Opened \/ Notify \/ ExtractReturns \/ WaitBars \/ Report \/ Stop \/ Close

CommandNext == Opening \/ Running \/ Interrupt

CommandSpec == CommandInit /\ [][CommandNext]_commandVars

--------------------------------------------------------------------------------
(* Properties                                                               *)

TypeInv ==
  /\ input \in Inputs
  /\ flags \in [named : BOOLEAN, list : BOOLEAN, bars : BOOLEAN]
  /\ pc \in {"args", "open", "inspect", "zip", "parse", "entry", "temp", "copy", "parse temp",
             "deferred", "opened", "notify", "extract", "bars", "report", "stop", "close",
             "exited", "killed"}
  /\ handles \subseteq {"input", "entry", "temp"}
  /\ tempFile \in BOOLEAN /\ keptTemp \in BOOLEAN /\ tempPath \in BOOLEAN
  /\ ra \in {"none", "input", "temp"}
  /\ closers \in {<<>>, <<"input">>, <<"temp">>}
  /\ notified \in BOOLEAN /\ interrupted \in BOOLEAN
  /\ err \in {"none", "open", "not payload", "zip", "header", "temp", "missing source", "extract"}
  /\ exit \in {-1, 0, 1, 2}

HasPayload == pc \in {"opened", "notify", "extract", "bars", "report", "stop", "close"} /\ ra # "none"

\* A payload that is in use can be read and will be released: its file is open,
\* is the only one open, and is what Close closes; a temporary copy is there and
\* is removed in the end.
PayloadIsReadable ==
  HasPayload => /\ handles = {ra} /\ closers = <<ra>>
                /\ tempPath = (ra = "temp") /\ tempFile = (ra = "temp")

\* Whatever fails between two steps of Open (input.go:11-116) and whatever
\* Extract returns, a run that ends by itself has closed every file and left no
\* temporary file, unless the system would not remove it; and so has Open as
\* soon as it returns an error.
NothingLeaks ==
  pc = "exited" \/ (pc = "opened" /\ err # "none") => handles = {} /\ (tempFile => keptTemp)

\* The sizes of a payload that is read are those of its header in exact
\* arithmetic, however large the two lengths: metadata lie inside the file
\* (payload.go:31-34), so data begin where dataOffset says.
MetadataInsideFile ==
  ra # "none" =>
    LET h == input.header IN
    /\ HeaderLen + h.manifestLen + h.sigLen <= h.size
    /\ MetadataLen(h) = HeaderLen + h.manifestLen + h.sigLen

\* "Every error aborts with a non-zero exit code" (CHANGELOG.md), also when it is
\* met with the temporary copy half made or after an interrupt.
ExitCodeTellsTheOutcome ==
  pc = "exited" => exit = IF ~ flags.named THEN 2 ELSE IF err = "none" THEN 0 ELSE 1
================================================================================
