------------------------------ MODULE EnvFile ------------------------------
(***************************************************************************)
(* passvalet inject: merging approved values into a project's env file.    *)
(*                                                                         *)
(* A file is a sequence of lines.  A line is an assignment, opens a quoted *)
(* value that goes on in the next lines, or is anything else; q says that  *)
(* it holds the quote character that ends a value open before it.          *)
(* Several processes inject at once; each locks the directory, reads,      *)
(* merges, and renames a temporary file over the old one.                  *)
(*                                                                         *)
(* Source: crates/passvalet-cli/src/project.rs.                            *)
(***************************************************************************)
EXTENDS Integers, Sequences, SequencesExt

CONSTANTS
  Proc,       \* inject processes
  NoProc,     \* nobody holds the lock
  Key,        \* environment variables
  Value,      \* values the vault may give
  Quoted,     \* those of them that quote_env writes between quotes
  OldValue,   \* what the file has for its own assignments
  NoKey, NoValue,
  MaxLines    \* bound on the length of the first file

ASSUME EnvAssumption ==
  /\ NoProc \notin Proc /\ NoKey \notin Key
  /\ Quoted \subseteq Value /\ OldValue \notin Value /\ NoValue \notin Value
  /\ MaxLines \in Nat

VARIABLES
  file,       \* the env file, a sequence of lines
  lock,       \* holder of the lock on the directory
  inj,        \* the inject processes
  original,   \* history: the first file
  committed   \* history: per key the value of the last rename that had one

vars == <<file, lock, inj, original, committed>>

----------------------------------------------------------------------------
Line == [kind : {"text", "marker"}, key : {NoKey}, value : {NoValue},
         q : BOOLEAN, eol : {"lf", "crlf"}]
        \cup [kind : {"assign"}, key : Key, value : Value \cup {OldValue},
              q : BOOLEAN, eol : {"lf", "crlf"}]
        \cup [kind : {"open"}, key : Key, value : {OldValue}, q : BOOLEAN,
              eol : {"lf", "crlf"}]

\* Lines of a file somebody else wrote, with one kind of line ending.
FirstLine(eol) == {l \in Line : l.kind # "marker" /\ l.value \notin Value /\ l.eol = eol}

\* quote_env: the value is on one line, in quotes unless it is plain.
Assignment(k, v) == [kind |-> "assign", key |-> k, value |-> v, q |-> v \in Quoted, eol |-> "lf"]

Marker == [kind |-> "marker", key |-> NoKey, value |-> NoValue, q |-> FALSE, eol |-> "lf"]

\* str::lines and join: every line ends in a plain newline.
Lf(l) == [l EXCEPT !.eol = "lf"]

----------------------------------------------------------------------------
(***************************************************************************)
(* The records of a file: an assignment with all the lines of its value,   *)
(* or a single line.  rest holds the lines of a value that is still open.  *)
(***************************************************************************)

Scan(st, l) ==
  LET rec == Append(st.rest, l)
      goesOn == IF st.rest = <<>> THEN l.kind = "open" ELSE ~l.q
  IN IF goesOn THEN [st EXCEPT !.rest = rec]
               ELSE [records |-> Append(st.records, rec), rest |-> <<>>]

Scanned(f) == FoldLeft(Scan, [records |-> <<>>, rest |-> <<>>], f)

\* Mutant: whatever is open at the end counts as closed.
Terminated_always(f) == TRUE

Terminated(f) == Scanned(f).rest = <<>>

Records(f) == Scanned(f).records

RecordKey(rec) == rec[1].key

----------------------------------------------------------------------------
(***************************************************************************)
(* merge_env_file, between the read and the write.                         *)
(***************************************************************************)

\* A record of a key that has a new value is replaced as a whole.
Merged(rec, values) ==
  IF RecordKey(rec) \in DOMAIN values
  THEN <<Assignment(RecordKey(rec), values[RecordKey(rec)])>>
  ELSE rec

\* The keys that no record had are appended under a comment.  (The blank line
\* before it is layout.)
Appended(f, values) ==
  LET remaining == DOMAIN values \ {RecordKey(Records(f)[i]) : i \in DOMAIN Records(f)}
      ks == SetToSeq(remaining)
  IN IF remaining = {} THEN <<>>
     ELSE <<Marker>> \o [i \in DOMAIN ks |-> Assignment(ks[i], values[ks[i]])]

Merge(f, values) ==
  LET body == FoldLeft(LAMBDA ls, rec : ls \o Merged(rec, values), <<>>, Records(f))
  IN [i \in DOMAIN body |-> Lf(body[i])] \o Appended(f, values)

----------------------------------------------------------------------------
Values == UNION {[ks -> Value] : ks \in SUBSET Key \ {{}}}

Idle == [pc |-> "idle", values |-> <<>>, text |-> <<>>]

Init ==
  /\ \E eol \in {"lf", "crlf"} : file \in BoundedSeq(FirstLine(eol), MaxLines)
  /\ original = file
  /\ lock = NoProc
  /\ inj = [p \in Proc |-> Idle]
  /\ committed = [k \in Key |-> NoValue]

\* inject: the keys that were approved and could be read, at least one.
inject(p, values) ==
  /\ inj[p] = Idle
  /\ inj' = [inj EXCEPT ![p].pc = "lock", ![p].values = values]
  /\ UNCHANGED <<file, lock, original, committed>>

\* Mutant: the lock is not taken.
Lock_none(p) ==
  /\ inj[p].pc = "lock"
  /\ inj' = [inj EXCEPT ![p].pc = "read"]
  /\ UNCHANGED <<file, lock, original, committed>>

Lock(p) ==
  /\ inj[p].pc = "lock" /\ lock = NoProc
  /\ lock' = p
  /\ inj' = [inj EXCEPT ![p].pc = "read"]
  /\ UNCHANGED <<file, original, committed>>

Unlocked(p) == lock' = IF lock = p THEN NoProc ELSE lock

\* The file is read; an unterminated value ends the merge.
Read(p) ==
  /\ inj[p].pc = "read"
  /\ IF Terminated(file)
     THEN /\ inj' = [inj EXCEPT ![p].pc = "write", ![p].text = file]
          /\ UNCHANGED lock
     ELSE /\ inj' = [inj EXCEPT ![p].pc = "failed"]
          /\ Unlocked(p)
  /\ UNCHANGED <<file, original, committed>>

\* write_private: the temporary file is renamed over the old one, and the
\* directory is closed.  Syncing the directory may fail after the rename.
Write(p) ==
  /\ inj[p].pc = "write"
  /\ file' = Merge(inj[p].text, inj[p].values)
  /\ committed' = [k \in Key |-> IF k \in DOMAIN inj[p].values
                                 THEN inj[p].values[k] ELSE committed[k]]
  /\ \E pc \in {"done", "failed"} : inj' = [inj EXCEPT ![p].pc = pc, ![p].text = <<>>]
  /\ Unlocked(p)
  /\ UNCHANGED original

\* Writing fails, or the process is killed: nothing was renamed, and the
\* system releases the lock.
Fails(p) ==
  /\ inj[p].pc \in {"lock", "read", "write"}
  /\ inj' = [inj EXCEPT ![p].pc = "failed", ![p].text = <<>>]
  /\ Unlocked(p)
  /\ UNCHANGED <<file, original, committed>>

Next ==
  \/ \E p \in Proc, values \in Values : inject(p, values)
  \/ \E p \in Proc : Lock(p) \/ Read(p) \/ Write(p) \/ Fails(p)

Spec == Init /\ [][Next]_vars

----------------------------------------------------------------------------
\* Types of the file, the lock and the processes; a process past the lock and
\* before its end holds it, and no other does.
TypeOK ==
  /\ \A i \in DOMAIN file : file[i] \in Line
  /\ lock \in Proc \cup {NoProc}
  /\ \A p \in Proc : lock = p <=> inj[p].pc \in {"read", "write"}
  /\ \A p \in Proc : /\ inj[p].pc \in {"idle", "lock", "read", "write", "done", "failed"}
                     /\ inj[p].values \in Values \cup {<<>>}
                     /\ \A i \in DOMAIN inj[p].text : inj[p].text[i] \in Line
  /\ committed \in [Key -> Value \cup {NoValue}]

(***************************************************************************)
(* What a reader of env files sees, stated without the merge's scan: a     *)
(* record starts at a line that no earlier record covers, and an open      *)
(* value covers the lines up to the next one with its quote.               *)
(***************************************************************************)
EnvRecords(f) ==
  LET last(i) == IF f[i].kind = "open"
                 THEN Min({j \in i+1..Len(f) : f[j].q} \cup {Len(f)}) ELSE i
      from[i \in 1..Len(f)+1] == IF i > Len(f) THEN <<>>
                                 ELSE <<SubSeq(f, i, last(i))>> \o from[last(i) + 1]
  IN from[1]

Closed(rec) == rec[1].kind = "open" => \E j \in 2..Len(rec) : rec[j].q

Readable(f) == \A i \in DOMAIN EnvRecords(f) : Closed(EnvRecords(f)[i])

\* No writer's value is lost: read back as an env file, the file gives every
\* injected key its last injected value, in each of the key's assignments
\* (project.rs merge_env_file; the test "a concurrent writer's value was lost",
\* project.rs line 525).
InjectedValuesRead ==
  \A k \in Key : committed[k] # NoValue =>
    LET mine == SelectSeq(EnvRecords(file), LAMBDA rec : rec[1].key = k)
    IN mine # <<>> /\ \A i \in DOMAIN mine : mine[i] = <<Assignment(k, committed[k])>>

\* The records of f that nobody injected and that are not the comment.
Others(f) ==
  SelectSeq(EnvRecords(f), LAMBDA rec :
    rec[1].kind # "marker" /\ (rec[1].key = NoKey \/ committed[rec[1].key] = NoValue))

\* "preserving everything else" (project.rs line 312): every other record is
\* still there, whole and in its order, whatever quotes the file has (its line
\* endings become plain newlines); and a file that cannot be read to its end is
\* left alone.  The state is well typed.
OthersPreserved ==
  LET plain(f) == [i \in DOMAIN f |-> [j \in DOMAIN f[i] |-> Lf(f[i][j])]]
  IN /\ TypeOK
     /\ IF Readable(original)
        THEN Readable(file) /\ plain(Others(file)) = plain(Others(original))
        ELSE file = original

============================================================================
