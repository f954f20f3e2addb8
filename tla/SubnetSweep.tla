----------------------------- MODULE SubnetSweep -----------------------------
(***************************************************************************)
(* The subnet sweep of core/src/discovery.cpp: Subnet's arithmetic on      *)
(* fixed-width addresses, and discover(), whose worker threads share an    *)
(* atomic index into the hosts of the block, push what they find under a   *)
(* mutex, and are joined before the result is sorted.                      *)
(***************************************************************************)
EXTENDS Naturals, Sequences, FiniteSets, SequencesExt

CONSTANTS
    W,            \* bits of an address (32 in the code)
    Blocks,       \* the addresses a block is written with
    Sweepers,     \* the threads discover() may start
    MinPrefix     \* kMinDiscoveryPrefix: the widest block that is swept

VARIABLES
    block,      \* [network, prefix]: the Subnet being swept
    open,       \* the addresses whose port is open
    sweepNext,  \* the atomic index
    sweeper,    \* thread -> the address it is probing, Idle or Joined
    completed,  \* addresses finished, counted under the mutex
    found,      \* the open addresses found, in the order they were finished
    returned,   \* discover() has returned
    probed      \* ghost: how often each address was probed

vars == <<block, open, sweepNext, sweeper, completed, found, returned, probed>>

Addresses == 0 .. 2^W - 1

Idle == 2^W
Joined == 2^W + 1

-----------------------------------------------------------------------------
(* Subnet.  The host part of an address is its last W - prefix bits. *)

HostSpan(prefix) == 2^(W - prefix)

FirstAddress(b) == b.network - (b.network % HostSpan(b.prefix))

LastAddress(b) == FirstAddress(b) + HostSpan(b.prefix) - 1

(* In a pair and in a single-address block both ends are hosts. *)
WholeBlock(b) == b.prefix >= W - 1

HostCount(b) == IF WholeBlock(b) THEN HostSpan(b.prefix) ELSE HostSpan(b.prefix) - 2

FirstHost(b) == IF WholeBlock(b) THEN FirstAddress(b) ELSE FirstAddress(b) + 1

LastHost(b) == IF WholeBlock(b) THEN LastAddress(b) ELSE LastAddress(b) - 1

(* parseCidr keeps the network with its host bits cleared. *)
Cidr(address, prefix) ==
    [network |-> FirstAddress([network |-> address, prefix |-> prefix]), prefix |-> prefix]

-----------------------------------------------------------------------------
(* discover(). *)

(* An index past the hosts ends the thread; otherwise it probes that host. *)
FetchNext(s) ==
    /\ sweeper[s] = Idle
    /\ sweeper' = [sweeper EXCEPT ![s] =
            IF sweepNext >= HostCount(block) \/ FirstHost(block) + sweepNext > LastHost(block)
            THEN Joined ELSE FirstHost(block) + sweepNext]
    /\ sweepNext' = sweepNext + 1
    /\ UNCHANGED <<block, open, completed, found, returned, probed>>

ProbeAddress(s) ==
    /\ sweeper[s] \in Addresses
    /\ LET a == sweeper[s] IN
       /\ probed' = [probed EXCEPT ![a] = @ + 1]
       /\ found' = IF a \in open THEN Append(found, a) ELSE found
    /\ completed' = completed + 1
    /\ sweeper' = [sweeper EXCEPT ![s] = Idle]
    /\ UNCHANGED <<block, open, sweepNext, returned>>

(* Every thread is joined: the table is put in address order and returned. *)
Return ==
    /\ \A s \in Sweepers : sweeper[s] = Joined
    /\ ~returned
    /\ returned' = TRUE
    /\ found' = SortSeq(found, <)
    /\ UNCHANGED <<block, open, sweepNext, sweeper, completed, probed>>

-----------------------------------------------------------------------------

Init ==
    /\ \E a \in Blocks, p \in MinPrefix .. W : block = Cidr(a, p)
    /\ open \in SUBSET {FirstAddress(block), FirstAddress(block) + 1, LastAddress(block)}
    /\ sweepNext = 0
    /\ sweeper = [s \in Sweepers |-> Idle]
    /\ completed = 0
    /\ found = << >>
    /\ returned = FALSE
    /\ probed = [a \in Addresses |-> 0]

Next == (\E s \in Sweepers : FetchNext(s) \/ ProbeAddress(s)) \/ Return

Spec == Init /\ [][Next]_vars

-----------------------------------------------------------------------------

(* The addresses that name a host of the block: all of a pair or of a     *)
(* single address, otherwise neither the network's nor the broadcast one. *)
Hosts ==
    LET inside == {a \in Addresses : a \div HostSpan(block.prefix)
                                        = block.network \div HostSpan(block.prefix)}
    IN  IF Cardinality(inside) <= 2 THEN inside
        ELSE {a \in inside : \E x, y \in inside : x < a /\ a < y}

(* However the threads interleave, each host is probed exactly once and    *)
(* nothing outside the hosts at all, for every prefix including the /31    *)
(* and /32 edges, and the open ones are what discover() returns, in        *)
(* address order whatever order the network answered in.                   *)
EveryHostOnce ==
    /\ \A a \in Addresses : probed[a] <= (IF a \in Hosts THEN 1 ELSE 0)
    /\ returned => /\ \A a \in Hosts : probed[a] = 1
                   /\ Range(found) = open \cap Hosts
                   /\ \A i \in 2 .. Len(found) : found[i - 1] < found[i]
                   /\ completed = Cardinality(Hosts)

(* The caller inside discover(), which returns.                            *)
InDiscover == ~returned
=============================================================================
