----------------------------- MODULE StateStore -----------------------------
(***************************************************************************)
(* The CNI server's persistent state store                                 *)
(* (calico-vpp-agent/cni/storage/storage.go): PersistCniServerState packs  *)
(* the map of live pod specs into a versioned buffer with struc, writes it *)
(* to the sibling file fname~ and renames that over fname;                 *)
(* LoadCniServerState reads fname back at agent start.                     *)
(*                                                                         *)
(* The agent may crash between any two steps, including in the middle of   *)
(* the file write, and is restarted.  The caller serialises saves (one     *)
(* writer), as the spec requires.  A pod spec is abstracted to its key,    *)
(* an identity and the byte length of one variable-length string field;    *)
(* struc writes that length in an int16 sizeof field.                      *)
(***************************************************************************)
EXTENDS Integers, Sequences, FiniteSets, SequencesExt

CONSTANTS
  Keys,            \* pod keys (netns, interface name)
  SpecIds,         \* distinguishable spec contents
  Lengths,         \* byte lengths a variable-length string field may have
  Version,         \* CniServerStateFileVersion of this build
  InjectIOErrors,  \* may WriteFile / Rename return an error
  MaxUpdates,      \* CNI adds / dels persisted
  MaxCrashes       \* agent crashes

ASSUME Lengths \subseteq Nat /\ Version \in Nat

Absent == [kind |-> "absent"]    \* no such file
Partial == [kind |-> "partial"]  \* a truncated or partly written file

PodSpec == [key: Keys, id: SpecIds, len: Lengths]
Files == {"state", "tmp"}

VARIABLES
  mem,        \* podInterfaceMap, as the set of its specs (one per key)
  files,      \* file name -> content, Partial or Absent
  pc,         \* the saving goroutine: idle, write (WriteFile next), rename
  buf,        \* the packed buffer being saved
  up,         \* is the agent running
  lastSaved,  \* the specs of the save that last completed (history)
  loaded,     \* the result of the last LoadCniServerState: res and specs
  updates, crashes

vars == <<mem, files, pc, buf, up, lastSaved, loaded, updates, crashes>>

NotLoaded == [res |-> "none", specs |-> {}]

-----------------------------------------------------------------------------
(* Encoding.                                                               *)

\* A Go int stored by struc in an int16 field: two's complement wrap.
Int16(n) == LET w == n % 65536 IN IF w >= 32768 THEN w - 65536 ELSE w

\* struc.Pack of one spec: the sizeof field holds Int16 of the length,
\* followed by the bytes themselves.
PackSpec(s) == [key |-> s.key, id |-> s.id, size |-> Int16(s.len), len |-> s.len]

\* PersistCniServerState: the version, the count and the specs in map
\* iteration order (Go randomises it).
Packings(m) ==
  {[kind |-> "full", ver |-> Version, recs |-> [i \in 1..Len(o) |-> PackSpec(o[i])]] :
     o \in SetToSeqs(m)}

\* struc.Unpack of one record: a negative size makes the slice allocation
\* panic; a size other than the bytes written misaligns every later field.
UnpackOutcome(r) ==
  CASE r.size < 0      -> "panic"
    [] r.size # r.len  -> "error"
    [] OTHER           -> "ok"
UnpackSpec(r) == [key |-> r.key, id |-> r.id, len |-> r.size]

\* LoadCniServerState: no file is an empty result, not an error; a
\* truncated file fails to unpack; the version is checked after the unpack.
Load(content) ==
  LET outcomes == {UnpackOutcome(content.recs[i]) : i \in DOMAIN content.recs}
  IN  CASE content = Absent     -> [res |-> "ok", specs |-> {}]
        [] content = Partial    -> [res |-> "error", specs |-> {}]
        [] "panic" \in outcomes -> [res |-> "panic", specs |-> {}]
        [] "error" \in outcomes -> [res |-> "error", specs |-> {}]
        [] content.ver # Version -> [res |-> "error", specs |-> {}]
        [] OTHER -> [res |-> "ok", specs |-> ToSet([i \in DOMAIN content.recs |-> UnpackSpec(content.recs[i])])]

-----------------------------------------------------------------------------
(* The saving goroutine.                                                   *)

\* A CNI add or del changes the map and PersistCniServerState packs it.
Update(k) ==
  /\ up /\ pc = "idle" /\ updates < MaxUpdates
  /\ \E new \in {{}} \cup {{s} : s \in {s \in PodSpec : s.key = k}} :
       /\ mem' = {s \in mem : s.key # k} \cup new
       /\ buf' \in Packings(mem')
  /\ pc' = "write"
  /\ updates' = updates + 1
  /\ UNCHANGED <<files, up, lastSaved, loaded, crashes>>

\* os.WriteFile(fname~): on error the save returns, the file may be partial.
WriteTmp ==
  /\ up /\ pc = "write"
  /\ \/ files' = [files EXCEPT !["tmp"] = buf] /\ pc' = "rename"
     \/ InjectIOErrors /\ files' = [files EXCEPT !["tmp"] = Partial] /\ pc' = "idle"
  /\ UNCHANGED <<mem, buf, up, lastSaved, loaded, updates, crashes>>

\* Fault variant of RenameTmp: the error of os.Rename is not checked.
RenameUnchecked ==
  /\ up /\ pc = "rename"
  /\ \/ files' = [files EXCEPT !["state"] = files["tmp"], !["tmp"] = Absent]
     \/ InjectIOErrors /\ UNCHANGED files
  /\ lastSaved' = mem
  /\ pc' = "idle"
  /\ UNCHANGED <<mem, buf, up, loaded, updates, crashes>>

\* os.Rename(fname~, fname): atomic replace; on error fname~ stays.
RenameTmp ==
  /\ up /\ pc = "rename"
  /\ \/ /\ files' = [files EXCEPT !["state"] = files["tmp"], !["tmp"] = Absent]
        /\ lastSaved' = mem
     \/ InjectIOErrors /\ UNCHANGED <<files, lastSaved>>
  /\ pc' = "idle"
  /\ UNCHANGED <<mem, buf, up, loaded, updates, crashes>>

-----------------------------------------------------------------------------
(* Crash and restart.                                                      *)

\* The agent dies; a file being written may be left truncated.
Crash ==
  /\ up /\ crashes < MaxCrashes
  /\ \/ UNCHANGED files
     \/ pc = "write" /\ files' = [files EXCEPT !["tmp"] = Partial]
  /\ up' = FALSE
  /\ pc' = "idle"
  /\ mem' = {}
  /\ crashes' = crashes + 1
  /\ UNCHANGED <<buf, lastSaved, loaded, updates>>

\* The agent starts and loads its state; an error or a panic stops it.
Restart ==
  /\ ~up /\ loaded.res \in {"none", "ok"}
  /\ loaded' = Load(files["state"])
  /\ up' = (loaded'.res = "ok")
  /\ mem' = loaded'.specs
  /\ UNCHANGED <<files, pc, buf, lastSaved, updates, crashes>>

Init ==
  /\ mem = {}
  /\ files = [f \in Files |-> Absent]
  /\ pc = "idle"
  /\ buf = Absent
  /\ up = TRUE
  /\ lastSaved = {}
  /\ loaded = NotLoaded
  /\ updates = 0
  /\ crashes = 0

Next ==
  \/ \E k \in Keys : Update(k)
  \/ WriteTmp \/ RenameTmp \/ Crash \/ Restart

Spec == Init /\ [][Next]_vars

-----------------------------------------------------------------------------
(* Properties.                                                             *)

\* Durability of PersistCniServerState with LoadCniServerState: at every
\* point a crash may hit, loading fname yields, field for field, the specs
\* of the last save that completed (the rename makes each save
\* all-or-nothing, and the packed lengths read back as written).
DiskHoldsLastSave ==
  Load(files["state"]) = [res |-> "ok", specs |-> lastSaved]

=============================================================================
