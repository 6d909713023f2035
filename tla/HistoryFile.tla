---------------------------- MODULE HistoryFile ----------------------------
(***************************************************************************)
(* The interactive history that concurrent sessions share                  *)
(* (flash-cli/src/history.rs): each session opens the file, and at every   *)
(* submission merges what it has to add into the file under an exclusive   *)
(* lock, rewriting the file in place.                                      *)
(*                                                                         *)
(* A file is a sequence of bytes: a rewrite that stops half way leaves a   *)
(* prefix of the new bytes over the old ones.                              *)
(***************************************************************************)
EXTENDS Naturals, Sequences, FiniteSets, SequencesExt

CONSTANTS Session,
          Setups    \* the ways a history is used, see below

\* submission       what is submitted
\* capacity         of the history
\* reedline         the Reedline editor syncs again after a submission
\* mode_kept        mkdir keeps the requested mode (not so on Redox)
\* max_submissions, max_stops     bounds
ASSUME HistoryAssumption == \A u \in Setups :
  /\ u.capacity \in Nat \ {0}
  /\ u.reedline \in BOOLEAN /\ u.mode_kept \in BOOLEAN
  /\ u.max_submissions \in Nat /\ u.max_stops \in Nat

VARIABLE setup      \* the one of this behaviour

Capacity == setup.capacity

VARIABLES directory,  \* missing, public (mode not set yet) or private
          file,       \* <<>>, or <<bytes>> once it exists
          lock,       \* the sessions that hold the file lock
          pc, entries, pending,   \* EditorHistory of each session
          merged,     \* what the session that holds the lock writes
          syncs,      \* the syncs the last submission still asks for
          log,        \* what was recorded, in the order of the syncs (history)
          submitted, stops

sessionVars == <<pc, entries, pending, merged, syncs>>
vars == <<directory, file, lock, sessionVars, log, submitted, stops>>

-----------------------------------------------------------------------------
(* Encoding.  LF stands for a line feed inside a submission. *)
Escaped == [c \in {"LF", "\\"} |-> IF c = "LF" THEN "n" ELSE "\\"]

encode_entry(entry) ==
  FlattenSeq([i \in DOMAIN entry |->
     IF entry[i] \in DOMAIN Escaped THEN <<"\\", Escaped[entry[i]]>> ELSE <<entry[i]>>])

Encoded(list) == FlattenSeq([i \in DOMAIN list |-> Append(encode_entry(list[i]), "NL")])

\* decode_entry; <<"invalid">> is an escape it refuses.
decode_entry(line) ==
  LET from[i \in 1..Len(line) + 2] ==
        IF i > Len(line) THEN <<>>
        ELSE IF line[i] # "\\" THEN <<line[i]>> \o from[i + 1]
        ELSE IF i < Len(line) /\ \E c \in DOMAIN Escaped : Escaped[c] = line[i + 1]
             THEN <<CHOOSE c \in DOMAIN Escaped : Escaped[c] = line[i + 1]>> \o from[i + 2]
             ELSE <<"invalid">>
  IN from[1]

Lines(bytes) ==
  LET ends   == {i \in DOMAIN bytes : bytes[i] = "NL"}
      bounds == <<0>> \o SetToSortSeq(ends, <)
                \o (IF bytes = <<>> \/ Len(bytes) \in ends THEN <<>> ELSE <<Len(bytes) + 1>>)
  IN [i \in 1..Len(bounds) - 1 |-> SubSeq(bytes, bounds[i] + 1, bounds[i + 1] - 1)]

Decoded(bytes) == [i \in DOMAIN Lines(bytes) |-> decode_entry(Lines(bytes)[i])]

Readable(bytes) == \A i \in DOMAIN Decoded(bytes) : ~Contains(Decoded(bytes)[i], "invalid")

\* Neighbours that are equal are one entry, and the oldest are forgotten.
Retained(list) ==
  LET kept   == SetToSortSeq({i \in DOMAIN list : i = 1 \/ list[i] # list[i - 1]}, <)
      unique == [i \in DOMAIN kept |-> list[kept[i]]]
  IN IF Len(unique) <= Capacity THEN unique
     ELSE SubSeq(unique, Len(unique) - Capacity + 1, Len(unique))

-----------------------------------------------------------------------------
Init ==
  /\ setup \in Setups
  /\ directory = "missing" /\ file = <<>> /\ lock = {}
  /\ pc = [s \in Session |-> "start"]
  /\ entries = [s \in Session |-> <<>>] /\ pending = [s \in Session |-> <<>>]
  /\ merged = [s \in Session |-> <<>>] /\ syncs = [s \in Session |-> 0]
  /\ log = <<>> /\ submitted = 0 /\ stops = 0

Goto(s, place) == pc' = [pc EXCEPT ![s] = place]

\* prepare_history_path: the directory is looked for, created, and secured by
\* the session that found it missing.
find_directory(s) ==
  /\ pc[s] = "start"
  /\ Goto(s, IF directory = "missing" THEN "create directory" ELSE "find file")
  /\ UNCHANGED <<directory, file, lock, entries, pending, merged, syncs, log, submitted, stops>>

create_directory(s) ==
  /\ pc[s] = "create directory"
  /\ directory' = IF directory # "missing" THEN directory
                  ELSE IF setup.mode_kept THEN "private" ELSE "public"
  /\ Goto(s, "secure directory")
  /\ UNCHANGED <<file, lock, entries, pending, merged, syncs, log, submitted, stops>>

secure_directory(s) ==
  /\ pc[s] = "secure directory"
  /\ directory' = "private"
  /\ Goto(s, "find file")
  /\ UNCHANGED <<file, lock, entries, pending, merged, syncs, log, submitted, stops>>

\* open_history_file refuses a directory that is not private; a missing file is
\* created, and a second session that creates it is refused.
find_file(s) ==
  /\ pc[s] = "find file"
  /\ Goto(s, CASE directory # "private" -> "refused"
               [] directory = "private" /\ file = <<>> -> "create file"
               [] directory = "private" /\ file # <<>> -> "sync")
  /\ syncs' = [syncs EXCEPT ![s] = 1]
  /\ UNCHANGED <<directory, file, lock, entries, pending, merged, log, submitted, stops>>

create_file(s) ==
  /\ pc[s] = "create file"
  /\ IF file = <<>>
     THEN file' = << <<>> >> /\ Goto(s, "sync")
     ELSE UNCHANGED file /\ Goto(s, "refused")
  /\ UNCHANGED <<directory, lock, entries, pending, merged, syncs, log, submitted, stops>>

-----------------------------------------------------------------------------
\* Mutant: the file is not locked.
lock_fileMutant(s) ==
  /\ pc[s] = "sync"
  /\ IF Readable(file[1])
     THEN /\ merged' = [merged EXCEPT ![s] = Retained(Decoded(file[1]) \o pending[s])]
          /\ Goto(s, "write")
     ELSE UNCHANGED merged /\ Goto(s, "refused")
  /\ UNCHANGED <<lock, directory, file, entries, pending, syncs, log, submitted, stops>>

\* EditorHistory::sync locks the file, reads it, and merges.
lock_file(s) ==
  /\ pc[s] = "sync" /\ lock = {}
  /\ IF Readable(file[1])
     THEN /\ lock' = {s}
          /\ merged' = [merged EXCEPT ![s] = Retained(Decoded(file[1]) \o pending[s])]
          /\ Goto(s, "write")
     ELSE UNCHANGED <<lock, merged>> /\ Goto(s, "refused")
  /\ UNCHANGED <<directory, file, entries, pending, syncs, log, submitted, stops>>

\* It rewrites the file, cuts off the rest, and unlocks.
rewrite(s) ==
  /\ pc[s] = "write"
  /\ file' = << Encoded(merged[s]) >>
  /\ lock' = lock \ {s}
  /\ entries' = [entries EXCEPT ![s] = merged[s]]
  /\ log' = log \o pending[s]
  /\ pending' = [pending EXCEPT ![s] = <<>>]
  /\ syncs' = [syncs EXCEPT ![s] = @ - 1]
  /\ Goto(s, IF syncs[s] = 1 THEN "prompt" ELSE "sync")
  /\ UNCHANGED <<directory, merged, submitted, stops>>

\* It is killed or its write fails (either ends the session) after some bytes.
rewrite_stops(s, written) ==
  /\ pc[s] = "write" /\ stops < setup.max_stops
  /\ written \in 0..Len(Encoded(merged[s]))
  /\ stops' = stops + 1
  /\ file' = << SubSeq(Encoded(merged[s]), 1, written)
                \o SubSeq(file[1], written + 1, Len(file[1])) >>
  /\ lock' = lock \ {s}
  /\ Goto(s, "ended")
  /\ UNCHANGED <<directory, entries, pending, merged, syncs, log, submitted>>

\* EditorHistory::record: a submission that repeats the newest entry the
\* session knows is not recorded.
record(s, source) ==
  /\ pc[s] = "prompt" /\ submitted < setup.max_submissions
  /\ submitted' = submitted + 1
  /\ LET repeated == entries[s] # <<>> /\ Last(entries[s]) = source
         asked    == (IF repeated THEN 0 ELSE 1) + (IF setup.reedline THEN 1 ELSE 0)
     IN /\ pending' = [pending EXCEPT ![s] = IF repeated THEN @ ELSE Append(@, source)]
        /\ syncs' = [syncs EXCEPT ![s] = asked]
        /\ Goto(s, IF asked = 0 THEN "prompt" ELSE "sync")
  /\ UNCHANGED <<directory, file, lock, entries, merged, log, stops>>

end_session(s) ==
  /\ pc[s] \in {"prompt", "refused"}
  /\ Goto(s, "ended")
  /\ UNCHANGED <<directory, file, lock, entries, pending, merged, syncs, log, submitted, stops>>

start_again(s) ==
  /\ pc[s] = "ended" /\ submitted < setup.max_submissions
  /\ Goto(s, "start")
  /\ entries' = [entries EXCEPT ![s] = <<>>] /\ pending' = [pending EXCEPT ![s] = <<>>]
  /\ syncs' = [syncs EXCEPT ![s] = 0]
  /\ merged' = [merged EXCEPT ![s] = <<>>]
  /\ UNCHANGED <<directory, file, lock, log, submitted, stops>>

all_ended ==
  /\ \A s \in Session : pc[s] = "ended"
  /\ submitted = setup.max_submissions
  /\ UNCHANGED vars

-----------------------------------------------------------------------------
Next ==
  /\ \/ \E s \in Session :
          \/ find_directory(s) \/ create_directory(s) \/ secure_directory(s)
          \/ find_file(s) \/ create_file(s)
          \/ lock_file(s) \/ rewrite(s)
          \/ \E written \in 0..IF pc[s] = "write" THEN Len(Encoded(merged[s])) ELSE 0 :
                rewrite_stops(s, written)
          \/ \E source \in setup.submission : record(s, source)
          \/ end_session(s) \/ start_again(s)
     \/ all_ended
  /\ UNCHANGED setup

Spec == Init /\ [][Next]_<<vars, setup>>

-----------------------------------------------------------------------------
TypeOK ==
  /\ directory \in {"missing", "public", "private"}
  /\ Len(file) \in 0..1
  /\ lock \in SUBSET Session /\ Cardinality(lock) <= 1
  /\ pc \in [Session -> {"start", "create directory", "secure directory", "find file", "create file",
                         "sync", "write", "prompt", "refused", "ended"}]
  /\ \A s \in Session : syncs[s] \in 0..2 /\ Len(entries[s]) <= Capacity
  /\ directory = "missing" => file = <<>>

\* Nothing recorded is lost, reordered or invented, whichever sessions sync in
\* whatever order: as long as no rewrite stops, the file holds the newest entries
\* of all sessions.
FileIsTheLog ==
  file # <<>> /\ stops = 0 => Readable(file[1]) /\ Decoded(file[1]) = Retained(log)

\* What is on record is in the file, in its order.
OnFile(recorded) ==
  \E f \in [DOMAIN recorded -> DOMAIN Decoded(file[1])] :
    /\ \A i, j \in DOMAIN f : i < j => f[i] < f[j]
    /\ \A i \in DOMAIN f : Decoded(file[1])[f[i]] = recorded[i]

\* A session that is killed, or whose write fails, in the middle of a rewrite
\* costs none of what was recorded while the history is below its capacity.
RecordsSurvive == file # <<>> /\ Len(log) < Capacity => OnFile(Retained(log))

\* The state is one of the program's, FileIsTheLog, and RecordsSurvive.
HistoryConsistent == TypeOK /\ FileIsTheLog /\ RecordsSurvive

-----------------------------------------------------------------------------
\* What the repository says of the code, and it does not do.

\* "Merge and durably record one accepted submission."
DurablyRecorded == file # <<>> => OnFile(Retained(log))

\* A submission is left out only when it repeats the newest entry on record:
\* "concurrent_sessions_merge_each_submission_without_lost_entries".
OnlyRepeatsAreLeftOut ==
  [][\A s \in Session, source \in setup.submission :
       record(s, source) /\ pending' = pending =>
         Decoded(file[1]) # <<>> /\ Last(Decoded(file[1])) = source]_vars
=============================================================================
