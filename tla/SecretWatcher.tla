---------------------------- MODULE SecretWatcher ----------------------------
(***************************************************************************)
(* The agent's Kubernetes secret cache                                     *)
(* (calico-vpp-agent/watchers/secret_watcher.go).  GetSecret starts an     *)
(* informer (a controller goroutine) for a secret it does not watch yet,   *)
(* unlocks the mutex while it waits for the controller to sync, and reads  *)
(* the cached value; the controller delivers OnAdd / OnUpdate / OnDelete   *)
(* callbacks, each under the same mutex; SweepStale drops the watches of   *)
(* secrets no longer used and closes their stop channels.                  *)
(*                                                                         *)
(* Every critical section is one atomic step.  The only point at which a   *)
(* step of GetSecret is suspended is the unlocked sync wait.  The caller   *)
(* (the BGP peer watcher) calls GetSecret and SweepStale from one          *)
(* goroutine, so it is one process.  A secret's content is a value of      *)
(* Vals or Nil (deleted).                                                  *)
(***************************************************************************)
EXTENDS Integers, Sequences, FiniteSets

CONSTANTS
  Names,       \* secret names
  Vals,        \* secret contents
  Nil,         \* no secret
  NoEvent,     \* a controller with no event popped
  SweepNames,  \* the names a SweepStale call may leave out of activeSecrets
  MaxWatches,  \* controllers started (watches created) in a behaviour
  MaxChanges,  \* changes of secrets in the API server
  MaxSweeps    \* SweepStale calls

VARIABLES
  watches,  \* sw.watches: name -> [present, secret]
  ctl,      \* controllers started: [name, stopped, seen, inflight]
  caller,   \* the caller: [pc |-> "idle" | "sync", name]
  got,      \* the result of the caller's last GetSecret (Nil: an error)
  client,   \* the last new value passed to client.OnSecretUpdate per name
  api,      \* the secrets in the API server
  crashed,  \* a callback dereferenced a deleted watch (nil pointer panic)
  changes, sweeps

vars == <<watches, ctl, caller, got, client, api, crashed, changes, sweeps>>

Val == Vals \cup {Nil}

\* The controller, if any, whose stop channel is sw.watches[n].stopCh.
Live(n) == {i \in DOMAIN ctl : ctl[i].name = n /\ ~ctl[i].stopped}

-----------------------------------------------------------------------------
(* The caller.                                                             *)

\* GetSecret of a watched name: lock, read sw.watches[name].secret, unlock.
ReadSecret(n) == got' = watches[n].secret

\* GetSecret(name) with ensureWatchingSecret: a watched name is read at
\* once; otherwise the entry is created, a controller is started on its
\* stop channel and the mutex released for the sync wait.
GetSecret(n) ==
  /\ ~crashed /\ caller.pc = "idle"
  /\ \/ /\ watches[n].present
        /\ ReadSecret(n)
        /\ UNCHANGED <<watches, ctl, caller>>
     \/ /\ ~watches[n].present /\ Len(ctl) < MaxWatches
        /\ watches' = [watches EXCEPT ![n] = [present |-> TRUE, secret |-> Nil]]
        /\ ctl' = Append(ctl, [name |-> n, stopped |-> FALSE, seen |-> Nil,
                               inflight |-> NoEvent])
        /\ caller' = [pc |-> "sync", name |-> n]
        /\ UNCHANGED got
  /\ UNCHANGED <<client, api, crashed, changes, sweeps>>

\* allowTimeForControllerSync returns (synced or 0.5s elapsed), the mutex
\* is taken again and GetSecret reads sw.watches[name].secret; a watch
\* deleted meanwhile is a nil dereference.
Relock ==
  /\ ~crashed /\ caller.pc = "sync"
  /\ IF watches[caller.name].present
       THEN ReadSecret(caller.name) /\ UNCHANGED crashed
       ELSE crashed' = TRUE /\ UNCHANGED got
  /\ caller' = [caller EXCEPT !.pc = "idle"]
  /\ UNCHANGED <<watches, ctl, client, api, changes, sweeps>>

\* SweepStale(activeSecrets): every watch not in activeSecrets has its
\* stop channel closed and is deleted.
SweepStale ==
  /\ ~crashed /\ caller.pc = "idle" /\ sweeps < MaxSweeps
  /\ \E stale \in SUBSET SweepNames :
       /\ watches' = [n \in Names |->
                        IF n \in stale THEN [present |-> FALSE, secret |-> Nil]
                        ELSE watches[n]]
       /\ ctl' = [i \in DOMAIN ctl |->
                    IF i \in UNION {Live(n) : n \in stale}
                      THEN [ctl[i] EXCEPT !.stopped = TRUE] ELSE ctl[i]]
  /\ sweeps' = sweeps + 1
  /\ UNCHANGED <<caller, got, client, api, crashed, changes>>

-----------------------------------------------------------------------------
(* The controllers and the API server.                                     *)

\* The informer of controller i pops the change of its secret since the
\* last event (the initial list for a new controller); a stopped
\* controller pops nothing more.
Pop(i) ==
  /\ ~crashed /\ ~ctl[i].stopped /\ ctl[i].inflight = NoEvent
  /\ api[ctl[i].name] # ctl[i].seen
  /\ ctl' = [ctl EXCEPT ![i].inflight = [old |-> ctl[i].seen, new |-> api[ctl[i].name]],
                        ![i].seen = api[ctl[i].name]]
  /\ UNCHANGED <<watches, caller, got, client, api, crashed, changes, sweeps>>

\* Fault variant of SetSecret: OnUpdate stores oldObj.
SetSecretOld(e, n) ==
  watches' = [watches EXCEPT ![n].secret = e.old]

\* OnAdd / OnUpdate / OnDelete: sw.watches[secret.Name].secret = new.
SetSecret(e, n) ==
  watches' = [watches EXCEPT ![n].secret = e.new]

\* Fault variant of NotifyClient: OnDelete does not notify the client.
NotifyClientNoDelete(e, n) ==
  client' = IF e.new = Nil THEN client ELSE [client EXCEPT ![n] = e.new]

\* sw.client.OnSecretUpdate(old, new): the BGP server now uses new.
NotifyClient(e, n) ==
  client' = [client EXCEPT ![n] = e.new]

\* The popped event's callback runs once it has the mutex; it stores the
\* new value into the watch of the secret's name and calls
\* client.OnSecretUpdate.  A watch deleted since is a nil dereference.
Deliver(i) ==
  /\ ~crashed /\ ctl[i].inflight # NoEvent
  /\ LET n == ctl[i].name IN
       IF watches[n].present
         THEN /\ SetSecret(ctl[i].inflight, n)
              /\ NotifyClient(ctl[i].inflight, n)
              /\ UNCHANGED crashed
         ELSE crashed' = TRUE /\ UNCHANGED <<watches, client>>
  /\ ctl' = [ctl EXCEPT ![i].inflight = NoEvent]
  /\ UNCHANGED <<caller, got, api, changes, sweeps>>

\* A secret is created, updated or deleted in the API server.
ChangeSecret(n, v) ==
  /\ ~crashed /\ changes < MaxChanges /\ api[n] # v
  /\ api' = [api EXCEPT ![n] = v]
  /\ changes' = changes + 1
  /\ UNCHANGED <<watches, ctl, caller, got, client, crashed, sweeps>>

\* NewSecretWatcher: an empty watches map; the API server starts with any
\* secrets.
Init ==
  /\ watches = [n \in Names |-> [present |-> FALSE, secret |-> Nil]]
  /\ ctl = <<>>
  /\ caller = [pc |-> "idle", name |-> CHOOSE n \in Names : TRUE]
  /\ got = Nil
  /\ client = [n \in Names |-> Nil]
  /\ api \in [Names -> Val]
  /\ crashed = FALSE
  /\ changes = 0
  /\ sweeps = 0

Next ==
  \/ \E n \in Names : GetSecret(n)
  \/ Relock \/ SweepStale
  \/ \E i \in DOMAIN ctl : Pop(i) \/ Deliver(i)
  \/ \E n \in Names, v \in Val : ChangeSecret(n, v)

\* Informer goroutines keep running until stopped: weak fairness on every
\* controller's pop and callback.
Fairness == \A i \in 1..MaxWatches :
  /\ WF_vars(i \in DOMAIN ctl /\ Pop(i))
  /\ WF_vars(i \in DOMAIN ctl /\ Deliver(i))

Spec == Init /\ [][Next]_vars /\ Fairness

-----------------------------------------------------------------------------
(* Properties.                                                             *)

\* The cache is the API server's secret except while the watch's own live
\* controller still owes an event: every change reaches sw.watches through
\* OnAdd / OnUpdate / OnDelete of the controller GetSecret started, and no
\* callback leaves a stale value behind.
CacheStaleOnlyWhilePending ==
  \A n \in Names :
    watches[n].present /\ watches[n].secret # api[n] =>
      \E i \in Live(n) : ctl[i].seen # api[n] \/ ctl[i].inflight # NoEvent

\* Once the API server stops changing, what OnSecretUpdate last handed to
\* the BGP server for every watched secret is its current content
\* (deletions included).
ClientConverges ==
  \A n \in Names : <>[](watches[n].present => client[n] = api[n])

\* No OnAdd / OnUpdate / OnDelete callback, and no GetSecret after its
\* sync wait, dereferences a watch that SweepStale deleted.
NoNilDeref == ~crashed

=============================================================================
