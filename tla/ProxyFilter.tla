----------------------------- MODULE ProxyFilter -----------------------------
(***************************************************************************)
(* WebProxy/src/filtering.c and the SIGINT handler of myproxy.c: the list  *)
(* of forbidden sites, loaded once at start and again by every SIGINT      *)
(* while handler threads search it.  There is no lock: a thread that runs  *)
(* the signal handler and the threads that search interleave at every      *)
(* access.  SIGINT is masked only in the thread that handles one, so that  *)
(* a second signal may be handled by another thread at the same time: a    *)
(* loader stands for an execution of the signal handler.                   *)
(*                                                                         *)
(* A site is a number: its rank in the order of strcmp.  A host and an     *)
(* entry that differ by a leading "www." are the same site, which is what  *)
(* the three comparisons of is_site_blocked amount to.  A file of more     *)
(* than 100 sites writes past the array and is outside the model.          *)
(*                                                                         *)
(* strncpy and qsort move bytes, so that a row is written for some time:   *)
(* loader[l] is "copy" or "sort" meanwhile.  What a thread that compares   *)
(* the row at that time finds is up to ProxyHandler; what two loaders      *)
(* leave behind that write one row at the same time is anything.           *)
(***************************************************************************)
EXTENDS Integers, Sequences, FiniteSets, SequencesExt

CONSTANTS
    Loaders,
    MaxSites,       \* rows of forbidden_sites
    StartFile,      \* sites of the file named by -a, in order
    ReloadFile,     \* sites of "forbidden_sites.txt", which SIGINT loads
    MaxSignals      \* bound: SIGINTs delivered

ASSUME FilterAssumption ==
    /\ MaxSites \in Nat
    /\ StartFile \in Seq(Nat \ {0}) /\ Len(StartFile) <= MaxSites
    /\ ReloadFile \in Seq(Nat \ {0}) /\ Len(ReloadFile) <= MaxSites
    /\ MaxSignals \in Nat

VARIABLES
    forbidden_sites,        \* rows 0.. of the array; 0 is an empty row
    num_forbidden_sites,
    loader,                 \* loader[l]: "idle", "open", "line", "copy", "count", "sort"
    line,                   \* line[l]: the next line of the file l reads
    row,                    \* row[l]: the row l copies to, or how many rows it sorts
    clash,                  \* the loaders whose write met another one's
    signals,                \* SIGINTs so far
    loaded                  \* history: the file whose load finished last

filterVars == <<forbidden_sites, num_forbidden_sites, loader, line, row, clash, signals,
                loaded>>

Rows == 0..(MaxSites - 1)
(* The i-th smallest of the entries of s, for every i. *)
Below(s, n) == {j \in DOMAIN s : s[j] <= n}
Sorted(s) ==
    [i \in DOMAIN s |->
        CHOOSE n \in ToSet(s) :
            Cardinality(Below(s, n - 1)) < i /\ i <= Cardinality(Below(s, n))]
AsRows(s, rows) == [i \in Rows |-> IF i < Len(s) THEN s[i + 1] ELSE rows[i]]
Entries(n) == [i \in 1..n |-> forbidden_sites[i - 1]]
Listed == Entries(num_forbidden_sites)

(* The rows that l, and that anyone, is writing. *)
WritesOf(l) ==
    CASE loader[l] = "copy" -> {row[l]}
      [] loader[l] = "sort" -> 0..(row[l] - 1)
      [] OTHER -> {}
WritingRows == UNION {WritesOf(l) : l \in Loaders}

FilterInit ==
    /\ forbidden_sites = AsRows(Sorted(StartFile), [i \in Rows |-> 0])
    /\ num_forbidden_sites = Len(StartFile)
    /\ loader = [l \in Loaders |-> "idle"]
    /\ line = [l \in Loaders |-> 1]
    /\ row = [l \in Loaders |-> 0]
    /\ clash = {}
    /\ signals = 0
    /\ loaded = StartFile

FilterTypeOK ==
    /\ forbidden_sites \in [Rows -> Nat]
    /\ num_forbidden_sites \in 0..MaxSites
    /\ loader \in [Loaders -> {"idle", "open", "line", "copy", "count", "sort"}]
    /\ line \in [Loaders -> 1..(Len(ReloadFile) + 1)]
    /\ row \in [Loaders -> 0..MaxSites]
    /\ clash \subseteq Loaders
    /\ signals \in 0..MaxSignals
    /\ loaded \in {StartFile, ReloadFile}

NoLoad == \A l \in Loaders : loader[l] = "idle"

Sigint(l) ==
    /\ loader[l] = "idle"
    /\ signals < MaxSignals
    /\ signals' = signals + 1
    /\ loader' = [loader EXCEPT ![l] = "open"]
    /\ UNCHANGED <<forbidden_sites, num_forbidden_sites, line, row, clash, loaded>>

LoadOpenKeepingCount(l) ==
    /\ loader[l] = "open"
    /\ \/ /\ loader' = [loader EXCEPT ![l] = "line"]
          /\ line' = [line EXCEPT ![l] = 1]
       \/ /\ loader' = [loader EXCEPT ![l] = "idle"]
          /\ UNCHANGED line
    /\ UNCHANGED <<num_forbidden_sites, forbidden_sites, row, clash, signals, loaded>>
(* fopen fails and the list stays as it is, or the list is cleared. *)
LoadOpen(l) ==
    /\ loader[l] = "open"
    /\ \/ /\ loader' = [loader EXCEPT ![l] = "line"]
          /\ line' = [line EXCEPT ![l] = 1]
          /\ num_forbidden_sites' = 0
       \/ /\ loader' = [loader EXCEPT ![l] = "idle"]
          /\ UNCHANGED <<line, num_forbidden_sites>>
    /\ UNCHANGED <<forbidden_sites, row, clash, signals, loaded>>

(* l starts to write rows: its copy goes to one, its sort to all n.        *)
StartWriting(l, how, n) ==
    LET rows == IF how = "copy" THEN {n} ELSE 0..(n - 1)
        met == {m \in Loaders \ {l} : WritesOf(m) \cap rows # {}}
    IN  /\ loader' = [loader EXCEPT ![l] = how]
        /\ row' = [row EXCEPT ![l] = n]
        /\ clash' = (clash \ {l}) \cup met \cup (IF met = {} THEN {} ELSE {l})
(* The rows of l are complete: as written, unless another loader wrote     *)
(* among them.                                                             *)
Written(l, rows) ==
    \E left \in (IF l \in clash THEN [Rows -> Nat] ELSE {rows}) :
        forbidden_sites' = [i \in Rows |-> IF i \in WritesOf(l) THEN left[i]
                                                                ELSE forbidden_sites[i]]

(* fgets, and strncpy begins. *)
LoadLine(l) ==
    /\ loader[l] = "line"
    /\ line[l] <= Len(ReloadFile)
    /\ num_forbidden_sites < MaxSites
    /\ StartWriting(l, "copy", num_forbidden_sites)
    /\ UNCHANGED <<forbidden_sites, num_forbidden_sites, line, signals, loaded>>

LoadCopied(l) ==
    /\ loader[l] = "copy"
    /\ Written(l, [i \in Rows |-> ReloadFile[line[l]]])
    /\ loader' = [loader EXCEPT ![l] = "count"]
    /\ UNCHANGED <<num_forbidden_sites, line, row, clash, signals, loaded>>

LoadCount(l) ==
    /\ loader[l] = "count"
    /\ num_forbidden_sites' = num_forbidden_sites + 1
    /\ line' = [line EXCEPT ![l] = @ + 1]
    /\ loader' = [loader EXCEPT ![l] = "line"]
    /\ UNCHANGED <<forbidden_sites, row, clash, signals, loaded>>

(* The end of the file, and qsort begins. *)
LoadEnd(l) ==
    /\ loader[l] = "line"
    /\ line[l] > Len(ReloadFile)
    /\ StartWriting(l, "sort", num_forbidden_sites)
    /\ UNCHANGED <<forbidden_sites, num_forbidden_sites, line, signals, loaded>>

LoadSort(l) ==
    /\ loader[l] = "sort"
    /\ Written(l, AsRows(Sorted(Entries(row[l])), forbidden_sites))
    /\ loader' = [loader EXCEPT ![l] = "idle"]
    /\ loaded' = ReloadFile
    /\ UNCHANGED <<num_forbidden_sites, line, row, clash, signals>>

LoaderStep(l) ==
    \/ LoadOpen(l)
    \/ LoadLine(l)
    \/ LoadCopied(l)
    \/ LoadCount(l)
    \/ LoadEnd(l)
    \/ LoadSort(l)
=============================================================================
