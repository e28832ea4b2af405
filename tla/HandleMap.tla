----------------------------- MODULE HandleMap -----------------------------
(***************************************************************************)
(* src/handle.c: the 16-bit handles the program sees for the host's, with  *)
(* a hash for the way back, a free list, and a sweep for windows that died *)
(* without anybody saying so.                                              *)
(*                                                                         *)
(* The hash chains and the free list share one link, `hnext`.  A host      *)
(* handle is a number, 0 for none; the host reuses the value of a window   *)
(* once it is gone.  since_sweep is only ever compared with SWEEP_EVERY,   *)
(* so it stops there.  `refused` is for the properties: how many requests  *)
(* in a row were refused while the table held a dead window.               *)
(***************************************************************************)
EXTENDS Integers, FiniteSets

CONSTANTS
  MAX_HANDLES,   \* the table's size
  FIRST_HANDLE,  \* the least handle given out
  SWEEP_FIRST,   \* how full the table is before a sweep
  SWEEP_EVERY,   \* requests between sweeps
  HASH_SIZE,     \* chains
  Host,          \* values of host handles
  Other          \* kinds of handle that are not windows

ASSUME TableAssumption ==
  FIRST_HANDLE \in Nat \ {0} /\ MAX_HANDLES \in Nat /\ FIRST_HANDLE < MAX_HANDLES
ASSUME SweepAssumption == SWEEP_FIRST \in 0 .. MAX_HANDLES /\ SWEEP_EVERY \in Nat \ {0}
ASSUME ValuesAssumption == Host \subseteq Nat \ {0} /\ HASH_SIZE \in Nat \ {0}

VARIABLES
  table,        \* tab, hash_head, free_head, next_free and live
  since_sweep,
  windows,      \* the host's windows: IsWindow
  refused,
  handleRet           \* the handle the last request was given; 0 for none

handleVars == <<table, since_sweep, windows, refused, handleRet>>

Entries == FIRST_HANDLE .. MAX_HANDLES - 1
Type == {"WND"} \cup Other

Entry(host, type, hnext) == [host |-> host, type |-> type, hnext |-> hnext]
Blank == Entry(0, "NONE", 0)

hash_of(host) == host % HASH_SIZE

HandleInit ==
  /\ table = [tab |-> [h \in Entries |-> Blank],
              hash_head |-> [b \in 0 .. HASH_SIZE - 1 |-> 0],
              free_head |-> 0, next_free |-> FIRST_HANDLE, live |-> 0]
  /\ since_sweep = 0
  /\ windows = {}
  /\ refused = 0
  /\ handleRet = 0

-----------------------------------------------------------------------------
(* The entries met from `start` along hnext, for as many steps as there    *)
(* are entries.                                                            *)
Walk(t, start) ==
  LET at[n \in 0 .. MAX_HANDLES] ==
        IF n = 0 THEN start
        ELSE IF at[n - 1] = 0 THEN 0 ELSE t.tab[at[n - 1]].hnext
  IN  {at[n] : n \in 0 .. MAX_HANDLES} \ {0}

Used(t) == {h \in Entries : t.tab[h].host # 0}

Dead(t) == {h \in Used(t) : t.tab[h].type = "WND" /\ t.tab[h].host \notin windows}

(* h_release: out of its chain, wherever it is in it, blanked, and on the  *)
(* free list.                                                              *)
Unlinked(t, h, b) ==
  IF t.hash_head[b] = h THEN [t EXCEPT !.hash_head[b] = t.tab[h].hnext]
  ELSE [t EXCEPT !.tab = [p \in Entries |->
          IF p \in Walk(t, t.hash_head[b]) /\ t.tab[p].hnext = h
          THEN [t.tab[p] EXCEPT !.hnext = t.tab[h].hnext] ELSE t.tab[p]]]

Freed(t, h) ==
  LET u == Unlinked(t, h, hash_of(t.tab[h].host)) IN
  [u EXCEPT !.tab[h] = Entry(0, "NONE", t.free_head),
            !.free_head = h,
            !.live = @ - 1]

\* A mistake it could have made: the sweep takes what lives too.
SweepableAlive(t) == {h \in Used(t) : t.tab[h].type = "WND"}

(* sweep_dead_windows: every one of them, in table order.                  *)
Sweepable(t) == Dead(t)

Swept(t) ==
  LET dead == Sweepable(t)
      by[n \in FIRST_HANDLE - 1 .. MAX_HANDLES - 1] ==
        IF n < FIRST_HANDLE THEN t
        ELSE IF n \in dead THEN Freed(by[n - 1], n) ELSE by[n - 1]
  IN  by[t.next_free - 1]

-----------------------------------------------------------------------------
(* The entry h16 finds for a host handle it has seen before.               *)
Found(t, type, host) ==
  {h \in Walk(t, t.hash_head[hash_of(host)]) :
     t.tab[h].host = host /\ t.tab[h].type = type}

Counted(n) == IF n < SWEEP_EVERY THEN n + 1 ELSE n

SweepDue(t, since) ==
  t.free_head = 0 /\ t.next_free >= SWEEP_FIRST /\ since >= SWEEP_EVERY

(* The entry for a new handle: the last released, else one never used.     *)
Popped(t) == [t EXCEPT !.free_head = t.tab[t.free_head].hnext]

Entered(t, h, type, host) ==
  LET b == hash_of(host) IN
  [t EXCEPT !.live = @ + 1,
            !.tab[h] = Entry(host, type, t.hash_head[b]),
            !.hash_head[b] = h]

(* h16 of a host handle that is not null.                                  *)
h16(type, host) ==
  \/ /\ Found(table, type, host) # {}
     /\ handleRet' \in Found(table, type, host)
     /\ UNCHANGED <<table, since_sweep, windows, refused>>
  \/ LET since == Counted(since_sweep)
         sweep == SweepDue(table, since)
         t     == IF sweep THEN Swept(table) ELSE table
     IN
     /\ Found(table, type, host) = {}
     /\ since_sweep' = IF sweep THEN 0 ELSE since
     /\ UNCHANGED windows
     /\ \/ /\ t.free_head # 0
           /\ table' = Entered(Popped(t), t.free_head, type, host)
           /\ handleRet' = t.free_head
           /\ refused' = 0
        \/ /\ t.free_head = 0 /\ t.next_free < MAX_HANDLES
           /\ table' = Entered([t EXCEPT !.next_free = @ + 1], t.next_free, type, host)
           /\ handleRet' = t.next_free
           /\ refused' = 0
        \/ /\ t.free_head = 0 /\ t.next_free = MAX_HANDLES
           /\ table' = t
           /\ handleRet' = 0
           /\ refused' = IF Dead(t) = {} THEN 0 ELSE refused + 1

(* h_release of whatever the program hands in; one it does not know is     *)
(* ignored.                                                                *)
Known(h) == h \in Entries /\ table.tab[h].host # 0

h_release(h) ==
  /\ table' = IF Known(h) THEN Freed(table, h) ELSE table
  /\ handleRet' = 0
  /\ UNCHANGED <<since_sweep, windows, refused>>

(* The host makes a window, with any value not in use, and destroys one.   *)
HostCreates(host) ==
  /\ host \notin windows
  /\ windows' = windows \cup {host}
  /\ handleRet' = 0
  /\ UNCHANGED <<table, since_sweep, refused>>

HostDestroys(host) ==
  /\ host \in windows
  /\ windows' = windows \ {host}
  /\ handleRet' = 0
  /\ UNCHANGED <<table, since_sweep, refused>>

HandleNext ==
  \/ \E host \in windows : h16("WND", host)
  \/ \E type \in Other, host \in Host : h16(type, host)
  \/ \E h \in Entries : h_release(h)
  \/ \E host \in Host : HostCreates(host) \/ HostDestroys(host)

HandleSpec == HandleInit /\ [][HandleNext]_handleVars

-----------------------------------------------------------------------------
(***************************************************************************)
(* Properties.                                                             *)
(***************************************************************************)

HandleTypeOK ==
  /\ table.tab \in [Entries -> [host : Host \cup {0}, type : Type \cup {"NONE"},
                               hnext : Entries \cup {0}]]
  /\ table.hash_head \in [0 .. HASH_SIZE - 1 -> Entries \cup {0}]
  /\ table.free_head \in Entries \cup {0}
  /\ table.next_free \in FIRST_HANDLE .. MAX_HANDLES
  /\ table.live \in 0 .. MAX_HANDLES - FIRST_HANDLE
  /\ since_sweep \in 0 .. SWEEP_EVERY
  /\ windows \subseteq Host
  /\ refused \in Nat
  /\ handleRet \in Entries \cup {0}

(* Every entry below next_free is either used or on the free list, and     *)
(* `live` counts the used ones: none is lost however handles are given     *)
(* back, swept and given out again (handle.c:30, "one of the 8192 for the  *)
(* life of the process").                                                  *)
Accounted ==
  /\ Walk(table, table.free_head) =
       (FIRST_HANDLE .. table.next_free - 1) \ Used(table)
  /\ table.live = Cardinality(Used(table))

(* The chain of a hash value holds exactly the used entries of that value, *)
(* though the same link chains the free ones.                              *)
ChainsHoldUsed ==
  \A b \in DOMAIN table.hash_head :
    Walk(table, table.hash_head[b]) =
      {h \in Used(table) : hash_of(table.tab[h].host) = b}

(* "so guest code comparing handles for equality behaves" (handle.h:23):   *)
(* no two handles stand for one host handle.                               *)
OneHandleEach ==
  \A g, h \in Used(table) :
    (/\ table.tab[g].host = table.tab[h].host
     /\ table.tab[g].type = table.tab[h].type) => g = h

(* A request, with whatever it sweeps, never takes a handle away from what *)
(* is still alive.                                                         *)
LiveStay ==
  [][\A h \in Used(table) \ Dead(table) :
       (handleRet' # 0 \/ since_sweep' # since_sweep) =>
         /\ table'.tab[h].host = table.tab[h].host
         /\ table'.tab[h].type = table.tab[h].type]_handleVars

(* A full table that holds a dead window refuses fewer than SWEEP_EVERY    *)
(* requests in a row before the sweep makes room (handle.c:37).            *)
RefusedBriefly == refused < SWEEP_EVERY

(* The table as a whole: entries are neither lost nor shared, the chains   *)
(* find what is used, a full table recovers, and what is alive keeps its   *)
(* handle through requests and sweeps.                                     *)
HandlesHonest ==
  /\ [](HandleTypeOK /\ Accounted /\ ChainsHoldUsed /\ OneHandleEach /\ RefusedBriefly)
  /\ LiveStay
=============================================================================
