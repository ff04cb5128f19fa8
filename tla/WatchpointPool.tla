--------------------------- MODULE WatchpointPool ---------------------------
(***************************************************************************)
(* NEMU's watchpoints (nemu/src/monitor/sdb/watchpoint.c): NR_WP           *)
(* structures on two linked lists, head for the watchpoints that are set   *)
(* and free_ for the others.  A structure is its number NO, which is also  *)
(* its index in wp_pool; the value of the watched expression is supplied   *)
(* by whoever instantiates the module.                                     *)
(***************************************************************************)
EXTENDS Integers, Sequences, FiniteSets

CONSTANTS NR_WP,    \* 32 in the code
          Exprs,    \* expressions that can be watched
          Values    \* what they can evaluate to

NULL == -1
WP   == 0 .. (NR_WP - 1)

ASSUME PoolAssumption == NR_WP \in Nat /\ NR_WP > 0

VARIABLES
  head, free_, next,  \* the two lists
  expr, old,          \* what is watched, and its value when last looked at
  fate                \* whether the process still runs: an assert aborts it,
                      \* a dereference of NULL is a segmentation fault

lists    == <<head, free_, next>>
poolVars == <<head, free_, next, expr, old, fate>>

-----------------------------------------------------------------------------
\* The nodes from a pointer on, in list order; a list that does not end is
\* cut after as many nodes as the pool has.
Walk(first) ==
  LET node[n \in 1 .. (NR_WP + 1)] ==
        IF n = 1 THEN first
        ELSE IF node[n - 1] = NULL THEN NULL ELSE next[node[n - 1]]
  IN  node
Chain(first) ==
  [n \in 1 .. Cardinality({k \in 1 .. NR_WP : Walk(first)[k] # NULL}) |-> Walk(first)[n]]

Nodes(first) == {Chain(first)[n] : n \in DOMAIN Chain(first)}
Active == Nodes(head)

\* An assertion fails, or NULL is dereferenced: nothing runs after that.
Die(how) == fate' = how /\ UNCHANGED <<lists, expr, old>>

-----------------------------------------------------------------------------
PoolState ==
  /\ next = [i \in WP |-> IF i = NR_WP - 1 THEN NULL ELSE i + 1]
  /\ head = NULL
  /\ free_ = 0
  /\ expr = [wp \in WP |-> "none"] /\ old = [wp \in WP |-> 0]
init_wp_pool == fate = "running" /\ PoolState

\* new_wp takes the first free structure and puts it at the head.
wp_set(e, result) ==
  /\ free_ # NULL
  /\ free_' = next[free_]
  /\ next'  = [next EXCEPT ![free_] = head]
  /\ head'  = free_
  /\ expr'  = [expr EXCEPT ![free_] = e]
  /\ old'   = [old EXCEPT ![free_] = result]
  /\ UNCHANGED fate

wp_set_full == free_ = NULL /\ Die("assert")

\* free_wp moves a structure of the list to the front of the free list.
Predecessor(wp) == CHOOSE p \in Nodes(head) : next[p] = wp
free_wp_Leak(wp) ==
  /\ IF wp = head
     THEN /\ head' = next[wp]
          /\ next' = [next EXCEPT ![wp] = free_]
     ELSE /\ next' = [next EXCEPT ![wp] = free_]
          /\ UNCHANGED head
  /\ free_' = wp
free_wp(wp) ==
  /\ IF wp = head
     THEN /\ head' = next[wp]
          /\ next' = [next EXCEPT ![wp] = free_]
     ELSE /\ next' = [next EXCEPT ![Predecessor(wp)] = next[wp], ![wp] = free_]
          /\ UNCHANGED head
  /\ free_' = wp

\* The loop of wp_delete walks over a watchpoint that has another number,
\* unless it is the last one of the pool.
Passes_OffByOne(wp, no) == wp # no /\ wp < NR_WP - 2
Passes(wp, no) == wp # no /\ wp < NR_WP - 1

\* Where the walk of wp_delete from head stops.
Stops(no) == {n \in DOMAIN Chain(head) :
                /\ ~Passes(Chain(head)[n], no)
                /\ \A k \in 1 .. (n - 1) : Passes(Chain(head)[k], no)}

wp_delete_none(no)     == no < NR_WP /\ head = NULL /\ UNCHANGED poolVars
wp_delete_refused(no)  == no >= NR_WP /\ Die("assert")
\* The walk runs off the list before the test for NULL that follows it.
wp_delete_overrun(no)  == no < NR_WP /\ head # NULL /\ Stops(no) = {} /\ Die("segv")
wp_delete_found(no) ==
  /\ no < NR_WP
  /\ \E n \in Stops(no) : free_wp(Chain(head)[n])
  /\ UNCHANGED <<expr, old, fate>>

wp_delete(no) == \/ wp_delete_none(no) \/ wp_delete_refused(no)
                 \/ wp_delete_overrun(no) \/ wp_delete_found(no)

\* wp_difftest looks at every watchpoint that is set; now gives what the
\* expression of a structure evaluates to as it is looked at.
Changed(now) == {wp \in Active : old[wp] # now[wp]}
wp_difftest_FirstOnly(now) ==
  /\ old' = IF Changed(now) = {} THEN old
            ELSE LET wp == CHOOSE w \in Changed(now) : TRUE
                 IN  [old EXCEPT ![wp] = now[wp]]
  /\ UNCHANGED <<lists, expr, fate>>
wp_difftest(now) ==
  /\ old' = [wp \in WP |-> IF wp \in Changed(now) THEN now[wp] ELSE old[wp]]
  /\ UNCHANGED <<lists, expr, fate>>

-----------------------------------------------------------------------------
(* The pool under any sequence of the debugger's commands.                 *)

Numbers == -1 .. NR_WP      \* what the user types after d, out of range included

PoolInit == init_wp_pool

Commands ==
  /\ fate = "running"
  /\ \/ \E e \in Exprs, v \in Values : wp_set(e, v)
     \/ wp_set_full
     \/ \E no \in Numbers : wp_delete(no)
     \/ \E now \in [WP -> Values] : wp_difftest(now)

Died == fate # "running" /\ UNCHANGED poolVars

PoolNext == Commands \/ Died
PoolSpec == PoolInit /\ [][PoolNext]_poolVars

-----------------------------------------------------------------------------
(* Properties.                                                             *)

\* Whatever is set and deleted, in whatever order, every structure is on
\* exactly one of the two lists, exactly once, and both lists end: nothing
\* leaks, and no walk of wp_difftest or wp_display goes round for ever
\* (new_wp and free_wp).
PoolPartition ==
  LET set  == Chain(head)
      idle == Chain(free_)
  IN  /\ Nodes(head) \cup Nodes(free_) = WP
      /\ Len(set) + Len(idle) = NR_WP
      /\ \A first \in {head, free_} :
           first # NULL => next[Chain(first)[Len(Chain(first))]] = NULL

\* d N deletes watchpoint N and no other ("Delete watchpoint", the command
\* table of sdb.c).
DeletesOnlyNamed ==
  [][ \A no \in Numbers : wp_delete(no) => Active \ Active' \subseteq {no} ]_poolVars

=============================================================================
