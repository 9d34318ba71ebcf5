------------------------------- MODULE LogFile -------------------------------
(***************************************************************************)
(* The plugin's own log file (crates/samp/src/logger.rs): the settings it  *)
(* is installed with, its rotation into archives, and what is on the disk  *)
(* when steps of a rotation fail or the server dies between two of them.   *)
(*                                                                         *)
(* log() holds the mutex of LoggerState from before the rotation until     *)
(* after the write, so one line is under way at a time and only the disk   *)
(* and a restart see what lies between two steps.  A line is its number,   *)
(* in the order of the mutex.                                              *)
(***************************************************************************)
EXTENDS Naturals, FiniteSets

CONSTANTS
  MaxLines,      \* bound of the model: lines ever logged
  MaxRestarts,   \* bound of the model: restarts of the server
  LineBytes,     \* the length of each line
  DefaultBytes,  \* DEFAULT_ROTATION_BYTES
  Sizes,         \* the arguments of rotation_size_mb, in bytes
  Keeps,         \* the arguments of rotation_keep; 0 stands for None too
  Unset,         \* an environment variable that is absent or not a number
  Fails          \* the file operations that may fail

ASSUME LogFileAssumption ==
  /\ MaxLines \in Nat /\ MaxRestarts \in Nat
  /\ LineBytes \in [1 .. MaxLines -> Nat]
  /\ DefaultBytes \in Nat \ {0}
  /\ Sizes \subseteq Nat /\ Keeps \subseteq Nat
  /\ Unset \notin Nat

VARIABLES
  \* what the disk holds, which outlives the process
  plain,     \* the lines of each uncompressed file: 0 is the active one, i is `.i`
  gz,        \* the lines that can be read from each `.i.gz`
  \* LoggerConfig
  rotation, compress,
  \* LoggerImpl and LoggerState
  at,        \* where log() is: "setup" before install, "idle" between lines
  line,      \* the line being logged; the last one between lines
  index,     \* the archive the rotation is at
  file,      \* state.file is Some
  current_size, next_archive_index, file_write_reported,
  \* history
  restarts,  \* how often the server was restarted
  styles,    \* the styles of rotation that ever archived a file
  holed,     \* a shift was cut short: by a failure, or by the end of the process
  missed,    \* the lines this process logged and did not write
  written    \* the lines some process wrote

disk == <<plain, gz>>
config == <<rotation, compress>>
state == <<file, current_size, next_archive_index, file_write_reported>>
history == <<restarts, styles, holed, missed, written>>
vars == <<disk, config, at, line, index, state, history>>

Line == 1 .. MaxLines
Places == {"setup", "idle", "mkdir", "drop", "shift", "archive", "create",
           "copy", "unlink", "reopen", "write"}

\* What can come of a file operation.
Outcomes(op) == IF op \in Fails THEN BOOLEAN ELSE {TRUE}

-----------------------------------------------------------------------------
(* Settings: LoggerConfig and the environment.                             *)

NoRotation == [on |-> FALSE, max_bytes |-> DefaultBytes, keep |-> 0]
NewConfig == [on |-> TRUE, max_bytes |-> DefaultBytes, keep |-> 0]
RotationSize(r, bytes) ==
  IF bytes = 0 THEN NoRotation ELSE [on |-> TRUE, max_bytes |-> bytes, keep |-> r.keep]

\* Keeping archives turns a rotation that is off on again, with the default size.
RotationKeep(r, keep) == [on |-> TRUE, max_bytes |-> r.max_bytes, keep |-> keep]

FromEnv(r, bytes, keep, off) ==
  LET sized == IF bytes = Unset THEN r ELSE RotationSize(r, bytes)
      kept == IF keep = Unset THEN sized ELSE RotationKeep(sized, keep)
  IN IF off THEN NoRotation ELSE kept

Init ==
  /\ plain = <<>> /\ gz = <<>>
  /\ rotation = NewConfig /\ compress = FALSE
  /\ at = "setup" /\ line = 0 /\ index = 0
  /\ file = FALSE /\ current_size = 0
  /\ next_archive_index = 0 /\ file_write_reported = FALSE
  /\ restarts = 0 /\ styles = {} /\ holed = FALSE /\ missed = {} /\ written = {}

Configure ==
  /\ at = "setup"
  /\ \/ \E bytes \in Sizes : rotation' = RotationSize(rotation, bytes)
     \/ \E keep \in Keeps : rotation' = RotationKeep(rotation, keep)
     \/ rotation' = RotationKeep(rotation, 0)
     \/ rotation' = NoRotation
     \/ \E bytes \in Sizes \cup {Unset}, keep \in Keeps \cup {Unset}, off \in BOOLEAN :
          rotation' = FromEnv(rotation, bytes, keep, off)
  /\ UNCHANGED <<disk, compress, at, line, index, state, history>>

CompressArchives ==
  /\ at = "setup"
  /\ compress' \in BOOLEAN
  /\ UNCHANGED <<disk, rotation, at, line, index, state, history>>

-----------------------------------------------------------------------------
(* Files.                                                                  *)

Without(files, i) == [k \in DOMAIN files \ {i} |-> files[k]]
With(files, i, lines) == [k \in DOMAIN files \cup {i} |-> IF k = i THEN lines ELSE files[k]]

\* fs::rename, which replaces what has the new name already; a file that is
\* not there is left alone (src.exists(), or the error of rename, ignored).
Renamed(files, i, j) ==
  IF i \in DOMAIN files THEN Without(With(files, j, files[i]), i) ELSE files

LinesOf(files) == UNION {files[i] : i \in DOMAIN files}
Readable == LinesOf(plain) \cup LinesOf(gz)

\* OpenOptions::create and append.
Opened == IF 0 \in DOMAIN plain THEN plain ELSE With(plain, 0, {})

SizeOf(lines) ==
  LET total[n \in Nat] ==
        IF n = 0 THEN 0 ELSE total[n - 1] + (IF n \in lines THEN LineBytes[n] ELSE 0)
  IN total[MaxLines]

\* find_next_archive_index: what follows the last archive of either kind.
IndexAfter(indices) ==
  CHOOSE n \in 1 .. MaxLines + 1 :
    /\ \A i \in indices : i < n
    /\ n = 1 \/ n - 1 \in indices

\* Mutant: the scan overlooks compressed archives.
NextIndexPlain == IndexAfter(DOMAIN plain \ {0})

NextIndex == IndexAfter((DOMAIN plain \cup DOMAIN gz) \ {0})

-----------------------------------------------------------------------------
(* install, as far as the file is concerned.                               *)

\* An install whose directory or file cannot be opened returns an error and
\* leaves everything as it was, INSTALLED included: it may be called again.
Install ==
  /\ at = "setup"
  /\ plain' = Opened
  /\ file' = TRUE
  /\ current_size' = SizeOf(Opened[0])
  /\ next_archive_index' = NextIndex
  /\ at' = "idle"
  /\ UNCHANGED <<gz, config, line, index, file_write_reported, history>>

-----------------------------------------------------------------------------
(* log.                                                                    *)

Log ==
  /\ at = "idle"
  /\ line < MaxLines
  /\ line' = line + 1
  /\ IF rotation.on /\ current_size + LineBytes[line + 1] > rotation.max_bytes
     THEN at' = "mkdir" /\ file' = FALSE
     ELSE at' = "write" /\ UNCHANGED file
  /\ UNCHANGED <<disk, config, index, current_size, next_archive_index, file_write_reported, history>>

\* Mutant: a write that fails is not reported.
WriteUnreported ==
  /\ at = "write"
  /\ at' = "idle"
  /\ \E ok \in Outcomes("write") :
       IF file /\ ok
       THEN /\ plain' = [plain EXCEPT ![0] = @ \cup {line}]
            /\ current_size' = current_size + LineBytes[line]
            /\ written' = written \cup {line}
            /\ UNCHANGED missed
       ELSE /\ missed' = missed \cup {line}
            /\ UNCHANGED <<plain, current_size, written>>
  /\ UNCHANGED <<gz, config, line, index, file, next_archive_index, file_write_reported,
                 restarts, styles, holed>>

Write ==
  /\ at = "write"
  /\ at' = "idle"
  /\ \E ok \in Outcomes("write") :
       IF file /\ ok
       THEN /\ plain' = [plain EXCEPT ![0] = @ \cup {line}]
            /\ current_size' = current_size + LineBytes[line]
            /\ written' = written \cup {line}
            /\ UNCHANGED <<file_write_reported, missed>>
       ELSE /\ missed' = missed \cup {line}
            /\ file_write_reported' = (file_write_reported \/ file)
            /\ UNCHANGED <<plain, current_size, written>>
  /\ UNCHANGED <<gz, config, line, index, file, next_archive_index, restarts, styles, holed>>

-----------------------------------------------------------------------------
(* rotate.                                                                 *)

Style == IF rotation.keep > 0 THEN "shift" ELSE "append"

CreateDirectory ==
  /\ at = "mkdir"
  /\ \E ok \in Outcomes("mkdir") :
       IF ok
       THEN /\ at' = IF Style = "shift" THEN "drop" ELSE "archive"
            /\ UNCHANGED file_write_reported
       ELSE at' = "reopen" /\ file_write_reported' = TRUE
  /\ UNCHANGED <<disk, config, line, index, file, current_size, next_archive_index, history>>

\* rotate_shift: the archive that would become one too many goes, in either form.
DropOldest ==
  /\ at = "drop"
  /\ \E ok, okGz \in Outcomes("remove") :
       /\ plain' = IF ok THEN Without(plain, rotation.keep) ELSE plain
       /\ gz' = IF okGz THEN Without(gz, rotation.keep) ELSE gz
  /\ index' = rotation.keep - 1
  /\ at' = "shift"
  /\ UNCHANGED <<config, line, state, history>>

\* Mutant: the compressed forms are left where they are.
ShiftPlain ==
  /\ at = "shift"
  /\ index > 0
  /\ \E ok, okGz \in Outcomes("rename") :
       /\ plain' = IF ok THEN Renamed(plain, index, index + 1) ELSE plain
       /\ holed' = (holed \/ ~ok \/ ~okGz)
  /\ index' = index - 1
  /\ UNCHANGED <<gz, config, at, line, state, restarts, styles, missed, written>>

\* `.index` and its compressed form move up; a rename that fails is passed over.
Shift ==
  /\ at = "shift"
  /\ index > 0
  /\ \E ok, okGz \in Outcomes("rename") :
       /\ plain' = IF ok THEN Renamed(plain, index, index + 1) ELSE plain
       /\ gz' = IF okGz THEN Renamed(gz, index, index + 1) ELSE gz
       /\ holed' = (holed \/ ~ok \/ ~okGz)
  /\ index' = index - 1
  /\ UNCHANGED <<config, at, line, state, restarts, styles, missed, written>>

\* Mutant: the loop stops above `.1`.
ShiftEndsEarly ==
  /\ at = "shift"
  /\ index <= 1
  /\ at' = "archive"
  /\ UNCHANGED <<disk, config, line, index, state, history>>

ShiftEnds ==
  /\ at = "shift"
  /\ index = 0
  /\ at' = "archive"
  /\ UNCHANGED <<disk, config, line, index, state, history>>

Archive ==
  /\ at = "archive"
  /\ LET target == IF Style = "shift" THEN 1 ELSE next_archive_index
     IN /\ index' = target
        /\ \E ok \in Outcomes("rename") :
             IF ok /\ 0 \in DOMAIN plain
             THEN /\ plain' = Renamed(plain, 0, target)
                  /\ styles' = styles \cup {Style}
                  /\ at' = IF compress THEN "create" ELSE "reopen"
                  /\ UNCHANGED holed
             ELSE /\ at' = "reopen"
                  /\ holed' = (holed \/ Style = "shift")
                  /\ UNCHANGED <<plain, styles>>
  /\ next_archive_index' = next_archive_index + (IF Style = "append" THEN 1 ELSE 0)
  /\ UNCHANGED <<gz, config, line, file, current_size, file_write_reported, restarts, missed, written>>

\* compress_archive: File::open and File::create; an existing `.gz` is emptied.
CreateGz ==
  /\ at = "create"
  /\ \E ok \in Outcomes("create") :
       IF ok THEN gz' = With(gz, index, {}) /\ at' = "copy"
             ELSE at' = "reopen" /\ UNCHANGED gz
  /\ UNCHANGED <<plain, config, line, index, state, history>>

\* The copy and the end of the stream; a half-written `.gz` is removed.
CopyGz ==
  /\ at = "copy"
  /\ \E ok \in Outcomes("copy"), removed \in Outcomes("remove") :
       IF ok THEN gz' = With(gz, index, plain[index]) /\ at' = "unlink"
             ELSE /\ gz' = IF removed THEN Without(gz, index) ELSE gz
                  /\ at' = "reopen"
  /\ UNCHANGED <<plain, config, line, index, state, history>>

UnlinkPlain ==
  /\ at = "unlink"
  /\ \E ok \in Outcomes("remove") : plain' = IF ok THEN Without(plain, index) ELSE plain
  /\ at' = "reopen"
  /\ UNCHANGED <<gz, config, line, index, state, history>>

Reopen ==
  /\ at = "reopen"
  /\ at' = "write"
  /\ \E ok \in Outcomes("reopen") :
       IF ok
       THEN /\ plain' = Opened
            /\ file' = TRUE
            /\ current_size' = 0
            /\ UNCHANGED <<file_write_reported, holed>>
       ELSE /\ file_write_reported' = TRUE
            /\ holed' = (holed \/ Style = "shift")
            /\ UNCHANGED <<plain, file, current_size>>
  /\ UNCHANGED <<gz, config, line, index, next_archive_index, restarts, styles, missed, written>>

-----------------------------------------------------------------------------
\* The process ends, wherever it is, and the server is started again with
\* settings of its own.
Restart ==
  /\ at # "setup"
  /\ restarts < MaxRestarts
  /\ restarts' = restarts + 1
  /\ at' = "setup"
  /\ rotation' = NewConfig /\ compress' = FALSE
  /\ index' = 0
  /\ file' = FALSE /\ current_size' = 0
  /\ next_archive_index' = 0 /\ file_write_reported' = FALSE
  /\ missed' = {}
  /\ holed' = (holed \/ (at \in {"shift", "archive"} /\ Style = "shift"))
  /\ UNCHANGED <<disk, line, styles, written>>

Next ==
  \/ Configure \/ CompressArchives
  \/ Install \/ Log \/ Write
  \/ CreateDirectory \/ DropOldest \/ Shift \/ ShiftEnds \/ Archive
  \/ CreateGz \/ CopyGz \/ UnlinkPlain \/ Reopen
  \/ Restart

Spec == Init /\ [][Next]_vars

-----------------------------------------------------------------------------
(* Properties.                                                             *)

\* The settings, the place in log(), the state and the files keep their types;
\* the loop of rotate_shift stays above the active file (logger.rs:1106).
TypeOK ==
  /\ \A files \in {plain, gz} :
       DOMAIN files \subseteq Nat /\ \A i \in DOMAIN files : files[i] \subseteq Line
  /\ 0 \notin DOMAIN gz
  /\ rotation \in [on : BOOLEAN, max_bytes : Nat, keep : Nat]
  /\ compress \in BOOLEAN
  /\ at \in Places /\ line \in 0 .. MaxLines /\ index \in Nat
  /\ file \in BOOLEAN /\ current_size \in Nat
  /\ next_archive_index \in Nat /\ file_write_reported \in BOOLEAN
  /\ restarts \in 0 .. MaxRestarts /\ styles \subseteq {"shift", "append"}
  /\ holed \in BOOLEAN /\ missed \subseteq Line /\ written \subseteq Line
  /\ file => 0 \in DOMAIN plain

\* Rotations delete archives.
Prunes == rotation.on /\ rotation.keep > 0

\* Without rotation_keep no step loses a line that was on the disk
\* (logger.rs:180 "never deleted by the SDK", logger.rs:1064 "strictly better
\* than data loss"), whatever operation of a rotation or of a write fails,
\* wherever the process ends and whatever earlier processes left behind: no index
\* is used twice, and an archive is removed only for a `.gz` that is complete.
\* Out of the model: a directory that cannot be listed at install (logger.rs:1229).
AppendLosesNothing ==
  [][~Prunes => Readable \subseteq Readable']_vars

\* The active file and the archives with nothing but newer lines; of an archive
\* either form will do, unless it is a `.gz` nothing can be read from.
FilesNewer(old) ==
  {i \in DOMAIN plain : \A l \in plain[i] : l > old}
    \cup {i \in DOMAIN gz : gz[i] # {} /\ \A l \in gz[i] : l > old}

\* With rotation_keep(N) a line leaves the disk only for N newer files
\* (logger.rs:177 "The most recent `N` archives stay on disk"), with failures of
\* everything but a rename or the reopening, with restarts anywhere but between
\* the shift and the rename of the active file, and with another N after each,
\* as long as no archive is of the other style.
NewestKept ==
  [][Prunes /\ ~holed' /\ "append" \notin styles =>
       \A l \in Readable \ Readable' : Cardinality(FilesNewer(l)') >= rotation.keep]_vars

\* The same, said of the disk, whatever fails.
MostRecentStay ==
  Prunes => \A l \in written \ Readable : Cardinality(FilesNewer(l)) >= rotation.keep

\* All lines of one file come before all of another.
Before(f, i, g, j) == \A l \in f[i], m \in g[j] : l < m

\* An archive's index tells its age, with any number of restarts: the newest is
\* `.1` where archives are shifted, the last index where they are appended
\* (logger.rs:477, docs/logging.md:229), and the active file is newer than all.
\* Among archives of one form with any failure; between plain archives and `.gz`
\* (logger.rs:1101 "a mixed archive directory ... stays consistent") unless a
\* shift was cut short, after which one form may be left behind by the other.
ArchivesInOrder ==
  \A f, g \in {plain, gz} : \A i \in DOMAIN f, j \in DOMAIN g :
    i < j => /\ i = 0 => Before(g, j, f, i)
             /\ f = g \/ ~holed =>
                  /\ styles \subseteq {"shift"} => Before(g, j, f, i)
                  /\ styles \subseteq {"append"} /\ i > 0 => Before(f, i, g, j)

\* The same between both forms, whatever fails (logger.rs:1099 "handled in
\* lockstep"): a `.gz` that cannot be renamed stays where it was, plain archives
\* go past it. LogFileMixed.cfg shows how.
MixedStaysInOrder ==
  styles \subseteq {"shift"} =>
    \A f, g \in {plain, gz} : \A i \in DOMAIN f, j \in DOMAIN g : i < j => Before(g, j, f, i)

\* A process that did not write a line it logged has told the server's log
\* (logger.rs:817 "once a file-write failure has been surfaced"): nothing is
\* missing from the file in silence.
LossIsReported == missed # {} => file_write_reported

=============================================================================
