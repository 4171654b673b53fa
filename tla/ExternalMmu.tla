---------------------------- MODULE ExternalMmu ----------------------------
(***************************************************************************)
(* The external MMU of one CPU: windows that the host acquires, sets and   *)
(* resets (exports.c), and the translation of an access that misses the    *)
(* TLB through them, before, after or instead of the guest's own MMU       *)
(* (get_external_mmu_phys_addr and tlb_fill, exec.c).  Where no window     *)
(* lets an access through, the host's fault handler is called; it may      *)
(* change the windows before it answers.                                   *)
(*                                                                         *)
(* Addresses count pages: windows are aligned to pages.  The end of a      *)
(* window is the first page behind it; Pages stands for the end that only  *)
(* the inclusive form can express, the last address of all.  Left out are  *)
(* the capacity of the array, which grows as needed, what a window adds to *)
(* an address, and the entries that the TLB gets.                          *)
(***************************************************************************)
EXTENDS Integers, Sequences, SequencesExt

CONSTANTS
    Pages,       \* pages of the address space
    Kinds,       \* kinds of accesses: load, store, fetch
    Types,       \* the sets of kinds that windows are acquired for
    Privs,       \* the sets of kinds that windows let through
    ArchMap,     \* the guest's page table: the page each page is mapped to
    Positions,   \* where the host puts the external MMU
    MaxWindows,  \* bound: windows at a time
    MaxIds       \* bound: windows ever acquired

NoPage == -1
Page == 0 .. Pages - 1

ASSUME ExternalMmuAssumption ==
    /\ Pages \in Nat \ {0} /\ MaxWindows \in Nat /\ MaxIds \in Nat
    /\ Types \subseteq SUBSET Kinds /\ Privs \subseteq SUBSET Kinds
    /\ ArchMap \in [Page -> Page \cup {NoPage}]
    /\ Positions \subseteq {"none", "replace", "before", "after"}

VARIABLES
    windows,    \* external_mmu_windows
    unsorted,   \* external_mmu_windows_unsorted
    next_id,    \* external_mmu_window_next_id
    position,   \* external_mmu_position
    fill        \* the tlb_fill under way

table == <<windows, unsorted, next_id>>
vars == <<table, position, fill>>

Idle == [stage |-> "idle"]
Ends == 0 .. Pages
Window == [id : Nat, start : Page, end : Ends, type : SUBSET Kinds, priv : SUBSET Kinds]

Covers(w, a) == w.start <= a /\ a < w.end

----------------------------------------------------------------------------
(* The search *)

\* find_last_mmu_window_possibly_covering: the last window that starts at or
\* below a if the windows are sorted, 0 if there is none.
find_last_mmu_window_possibly_covering(ws, a) ==
    LET search[range \in (1 .. Len(ws) + 1) \X (0 .. Len(ws))] ==
            LET lo == range[1]
                hi == range[2]
                test == lo + (hi - lo) \div 2
            IN IF lo > hi THEN lo - 1
               ELSE IF ws[test].start <= a THEN search[<<test + 1, hi>>]
               ELSE search[<<lo, test - 1>>]
    IN search[<<1, Len(ws)>>]

\* Fault seeded: every end is compared as if it were inclusive.
VisitedInclusive(ws, a) ==
    LET last == find_last_mmu_window_possibly_covering(ws, a)
    IN {i \in 1 .. last : \A j \in i .. last : a <= ws[j].end}

\* The windows that the walk down from there visits: it ends at the first one
\* that a lies behind.
Visited(ws, a) ==
    LET last == find_last_mmu_window_possibly_covering(ws, a)
    IN {i \in 1 .. last : \A j \in i .. last : a < ws[j].end}

\* The window that decides about an access, 0 if there is none.
Deciding(ws, a, kind) ==
    LET hits == {i \in Visited(ws, a) : kind \in ws[i].type}
    IN IF hits = {} THEN 0 ELSE CHOOSE i \in hits : \A j \in hits : j <= i

compare_mmu_windows(v, w) == v.start < w.start \/ (v.start = w.start /\ v.end <= w.end)

\* ensure_mmu_windows_sorted: qsort leaves equal windows in any order.
Sortings(ws) ==
    {s \in {[i \in DOMAIN ws |-> ws[p[i]]] : p \in Bijection(DOMAIN ws, DOMAIN ws)} :
        \A i, j \in DOMAIN ws : i < j => compare_mmu_windows(s[i], s[j])}

----------------------------------------------------------------------------
(* The host sets windows, also from within its fault handler *)

HostMayAct == fill.stage \in {"idle", "ask", "report"}

Enabled == position # "none"
ById(id) == CHOOSE i \in DOMAIN windows : windows[i].id = id
Ids == {windows[i].id : i \in DOMAIN windows}

\* Fault seeded: the id is the index of the window.
AcquireIndex ==
    /\ HostMayAct /\ Enabled /\ Len(windows) < MaxWindows /\ next_id < MaxIds
    /\ \E type \in Types :
          windows' = Append(windows, [id |-> Len(windows), start |-> 0, end |-> 0,
                                      type |-> type, priv |-> {}])
    /\ next_id' = next_id + 1
    /\ unsorted' = TRUE
    /\ UNCHANGED <<position, fill>>

tlib_acquire_mmu_window ==
    /\ HostMayAct /\ Enabled /\ Len(windows) < MaxWindows /\ next_id < MaxIds
    /\ \E type \in Types :
          windows' = Append(windows, [id |-> next_id, start |-> 0, end |-> 0,
                                      type |-> type, priv |-> {}])
    /\ next_id' = next_id + 1
    /\ unsorted' = TRUE
    /\ UNCHANGED <<position, fill>>

\* Fault seeded: the windows are not marked as unsorted.
SetStartQuietly ==
    /\ HostMayAct /\ Enabled
    /\ \E id \in Ids, a \in Page : windows' = [windows EXCEPT ![ById(id)].start = a]
    /\ UNCHANGED <<unsorted, next_id, position, fill>>

tlib_set_mmu_window_start ==
    /\ HostMayAct /\ Enabled
    /\ \E id \in Ids, a \in Page : windows' = [windows EXCEPT ![ById(id)].start = a]
    /\ unsorted' = TRUE
    /\ UNCHANGED <<next_id, position, fill>>

\* The host gives the end, or the last page of the window.  The order of the
\* windows depends on their ends too, but is not marked as lost.
tlib_set_mmu_window_end ==
    /\ HostMayAct /\ Enabled
    /\ \E id \in Ids, addr \in Page, range_end_inclusive \in BOOLEAN :
          windows' = [windows EXCEPT ![ById(id)].end =
                         IF range_end_inclusive THEN addr + 1 ELSE addr]
    /\ UNCHANGED <<unsorted, next_id, position, fill>>

tlib_set_window_privileges ==
    /\ HostMayAct /\ Enabled
    /\ \E id \in Ids, priv \in Privs : windows' = [windows EXCEPT ![ById(id)].priv = priv]
    /\ UNCHANGED <<unsorted, next_id, position, fill>>

tlib_reset_mmu_window ==
    /\ HostMayAct
    /\ \E id \in Ids : windows' = RemoveAt(windows, ById(id))
    /\ UNCHANGED <<unsorted, next_id, position, fill>>

\* The visited windows go and those behind them move down.  Nothing sorts the
\* windows first.
RemovedCovering(ws, a) ==
    LET last == find_last_mmu_window_possibly_covering(ws, a)
        first == Min(Visited(ws, a) \cup {last + 1})
    IN SubSeq(ws, 1, first - 1) \o SubSeq(ws, last + 1, Len(ws))

tlib_reset_mmu_windows_covering_address ==
    /\ HostMayAct
    /\ \E a \in Page : windows' = RemovedCovering(windows, a)
    /\ UNCHANGED <<unsorted, next_id, position, fill>>

tlib_reset_all_mmu_windows ==
    /\ HostMayAct
    /\ windows' = <<>>
    /\ UNCHANGED <<unsorted, next_id, position, fill>>

tlib_enable_external_window_mmu ==
    /\ fill = Idle
    /\ position' \in Positions
    /\ UNCHANGED <<table, fill>>

----------------------------------------------------------------------------
(* tlb_fill *)

\* An access that misses the TLB; a quiet one (no_page_fault) is a translation for
\* the host.  The guest's own MMU is asked first if the external one comes after
\* it, or alone; where it faults, or nobody else is asked, the fill is over.
tlb_fill ==
    /\ fill = Idle
    /\ \E a \in Page, kind \in Kinds, quiet \in BOOLEAN :
          LET iaddr == IF position = "after" THEN ArchMap[a] ELSE a
          IN /\ position # "none" /\ iaddr # NoPage
             /\ fill' = [stage |-> "lookup", iaddr |-> iaddr, kind |-> kind, quiet |-> quiet,
                         first_try |-> TRUE]
    /\ UNCHANGED <<table, position>>

\* get_external_mmu_phys_addr up to its return or to a call of the handler.  When
\* the windows let the access through, the guest's MMU may be asked about the
\* result, and the fill is over whatever it says.
get_external_mmu_phys_addr ==
    /\ fill.stage = "lookup"
    /\ windows' \in IF unsorted THEN Sortings(windows) ELSE {windows}
    /\ unsorted' = FALSE
    /\ LET i == Deciding(windows', fill.iaddr, fill.kind)
           granted == i # 0 /\ fill.kind \in windows'[i].priv
       IN fill' = CASE granted -> Idle
                    [] ~granted /\ fill.first_try -> [fill EXCEPT !.stage = "ask"]
                    [] ~granted /\ ~fill.first_try /\ ~fill.quiet -> [fill EXCEPT !.stage = "report"]
                    [] OTHER -> Idle
    /\ UNCHANGED <<next_id, position>>

\* Fault seeded: the retry counts as a first try again.
HandlerAnswersAgain ==
    /\ fill.stage = "ask"
    /\ \/ fill' = [fill EXCEPT !.stage = "lookup"]
       \/ fill' = IF fill.quiet THEN Idle ELSE [fill EXCEPT !.stage = "report"]
    /\ UNCHANGED <<table, position>>

\* The handler answers the first question: try again, or fail.
HandlerAnswers ==
    /\ fill.stage = "ask"
    /\ \/ fill' = [fill EXCEPT !.stage = "lookup", !.first_try = FALSE]
       \/ fill' = IF fill.quiet THEN Idle ELSE [fill EXCEPT !.stage = "report"]
    /\ UNCHANGED <<table, position>>

\* The handler answers the second one: nothing, a fault that makes the CPU leave
\* cpu_exec, or an abort of the guest.  The access fails in any case.
HandlerReports ==
    /\ fill.stage = "report"
    /\ fill' = Idle
    /\ UNCHANGED <<table, position>>

EmmuInit ==
    /\ windows = <<>> /\ unsorted = FALSE /\ next_id = 0
    /\ position = "none" /\ fill = Idle

HostSets ==
    \/ tlib_acquire_mmu_window \/ tlib_set_mmu_window_start \/ tlib_set_mmu_window_end
    \/ tlib_set_window_privileges \/ tlib_reset_mmu_window
    \/ tlib_reset_mmu_windows_covering_address \/ tlib_reset_all_mmu_windows
    \/ tlib_enable_external_window_mmu

FillStep == get_external_mmu_phys_addr \/ HandlerAnswers \/ HandlerReports

EmmuNext == HostSets \/ tlb_fill \/ FillStep

\* The CPU goes on with a fill it has begun, and the host's handler returns.
EmmuSpec == EmmuInit /\ [][EmmuNext]_vars /\ WF_vars(FillStep)

----------------------------------------------------------------------------
(* Properties *)

\* What the comments at both searches assume: "a window starting earlier cannot
\* end later", taken to include that windows with one start have one end.
NoneEndsLater(ws) ==
    \A i, j \in DOMAIN ws : ws[i].start <= ws[j].start => ws[i].end <= ws[j].end

\* The variables have their types, and no two windows share the id that
\* external_mmu_find_window_by_id looks for.
EmmuTypeOK ==
    /\ windows \in Seq(Window) /\ Len(windows) <= MaxWindows
    /\ \A i, j \in DOMAIN windows : windows[i].id = windows[j].id => i = j
    /\ next_id \in 0 .. MaxIds /\ \A id \in Ids : id < next_id
    /\ unsorted \in BOOLEAN
    /\ position \in Positions \cup {"none"}
    /\ fill.stage \in {"idle", "lookup", "ask", "report"}

\* Unless the windows are marked as unsorted, the search and the walk of
\* get_external_mmu_phys_addr find a window of the right type whenever one covers
\* the address, whatever windows were set, moved and removed before.
LookupFindsWindow ==
    ~unsorted /\ NoneEndsLater(windows) =>
        \A a \in Page, kind \in Kinds :
            LET fit == {i \in DOMAIN windows : Covers(windows[i], a) /\ kind \in windows[i].type}
            IN IF fit = {} THEN Deciding(windows, a, kind) = 0
               ELSE Deciding(windows, a, kind) \in fit

\* An access is let through the windows only if one of them covers the address
\* and allows the access, at the time of the lookup: also when the handler or the
\* host has moved windows since the last one, and when windows that start earlier
\* end later.  A quiet fill that fails on its second try ends as well.
GrantsAreCovered ==
    [][fill.stage = "lookup" /\ fill' = Idle /\ (fill.first_try \/ ~fill.quiet)
         => \E i \in DOMAIN windows' :
               /\ Covers(windows'[i], fill.iaddr)
               /\ fill.kind \in windows'[i].type \cap windows'[i].priv]_vars

\* tlib_reset_mmu_windows_covering_address removes the windows that cover the
\* address and no others.  All that the comment there assumes is NoneEndsLater, and
\* that is not enough: the search needs sorted windows, and nothing sorts them
\* first.  While windows are unsorted this does not hold.
ResetTakesCovering ==
    NoneEndsLater(windows) =>
        \A a \in Page :
            ToSet(RemovedCovering(windows, a)) = {w \in ToSet(windows) : ~Covers(w, a)}

\* Every tlb_fill returns, whatever the handler answers: get_external_mmu_phys_addr
\* tries again only once.
FillEnds == fill # Idle ~> fill = Idle

=============================================================================
