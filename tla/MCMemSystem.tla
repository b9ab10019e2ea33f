----------------------------- MODULE MCMemSystem -----------------------------
(***************************************************************************)
(* A small instance of MemSystem under two kinds of traffic, each with the *)
(* whole freedom of the specification in what it takes up:                 *)
(*   words: read and written in two banks, one of them at the line that    *)
(*     the VGA client reads, with its requests and refreshes at any time;  *)
(*   lanes: halfwords and bytes written and words read on the second row,  *)
(*     at the start of a line, where the burst wraps.                      *)
(***************************************************************************)
EXTENDS MemSystem

L(b, r) == [bank |-> b, row |-> r, col |-> 0]
At(b, r, i) == [line |-> L(b, r), byte |-> i]

\* Every byte of the contents tells its bank and its place.
MCPowerUp == [l \in Line |-> [i \in 0..7 |-> 10 + 10 * l.bank + i]]
MCBytes == 0..4 \cup 10..47

MCAddrs == {At(0, 0, 0), At(1, 0, 4)}
MCWords == {[b \in 0..3 |-> b + 1]}
MCVgaLines == {L(0, 0)}

\* A word whose upper halfword is at the start of its line (the burst that writes it
\* starts at the end of the line and wraps) and a byte on the other lane.
LanesAddrs == {At(1, 1, 0), At(1, 1, 3)}
BothAddrs == MCAddrs \cup LanesAddrs

Traffic ==
  [words |-> [ops |-> {"read", "write"}, addrs |-> MCAddrs, asks |-> VgaPhases, refreshes |-> RefreshPhases],
   lanes |-> [ops |-> {"read", "writeh", "writeb"}, addrs |-> LanesAddrs, asks |-> {}, refreshes |-> {14}]]

VARIABLE traffic
Of == Traffic[traffic]

MCInit == Init /\ traffic \in DOMAIN Traffic
MCNext ==
  /\ Next /\ UNCHANGED traffic
  /\ mem_op' # "none" => mem_op' \in Of.ops /\ mem_addr' \in Of.addrs
  /\ (vga_state = "idle" /\ vga_state' = "wait") \/ vga_reservebank' # vga_reservebank => sdram_state \in Of.asks
  /\ vga_refresh' => sdram_state \in Of.refreshes

\* A behaviour of Spec, with traffic of one kind.
MCSpec == MCInit /\ [][MCNext]_<<vars, traffic>>
=============================================================================
