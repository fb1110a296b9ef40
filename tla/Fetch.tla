------------------------------- MODULE Fetch -------------------------------
(***************************************************************************)
(* The fetcher together with what it shares with the rest of the core: the *)
(* dual-port RAM (rtl/ram.sv, ram_sdp), whose instruction port answers one *)
(* cycle later while the data port may store, and the core's stall, jump   *)
(* and reset wires, which take any value in any cycle.                     *)
(***************************************************************************)
EXTENDS XrvIf

CONSTANTS Images,  \* the memory contents a run starts from
          Stores,  \* the words the data port may store
          Targets, \* the addresses the program jumps to
          NoInst   \* no instruction was handed over

Word == 0 .. NWord - 1
StoreRecord == [word : Word, lo : Half, hi : Half]

ASSUME MemAssumption == /\ Images \subseteq [Addr -> Half]
                        /\ Stores \subseteq StoreRecord
                        /\ Targets \subseteq Addr

VARIABLES mem, i_data,
          seen,    \* history: the contents of each address since the last jump
          fetched  \* history: what was handed to the decoder in the last cycle

vars == <<ifVars, mem, i_data, seen, fetched>>

Instruction == [pc : Addr, inst : Half \X Half]

TypeOK == /\ IfTypeOK
          /\ mem \in [Addr -> Half]
          /\ i_data \in Half \X Half
          /\ seen \in [Addr -> SUBSET Half]
          /\ fetched \in Instruction \cup {NoInst}

Init == /\ IfInit
        /\ mem \in Images
        /\ i_data = <<ZeroHalf, ZeroHalf>>
        /\ seen = [a \in Addr |-> {mem[a]}]
        /\ fetched = NoInst

(* Port A stores a word (byte enables only choose how much of it changes), *)
(* port B reads the old contents at the same edge.                         *)
StoreWord(s) ==
    mem' = [mem EXCEPT ![2 * s.word] = s.lo, ![2 * s.word + 1] = s.hi]
DataPort == UNCHANGED mem \/ \E s \in Stores : StoreWord(s)
InstPort == i_data' = <<mem[WordBase(i_addr)], mem[WordBase(i_addr) + 1]>>

Hand(stalling) ==
    fetched' = IF inst_valid(stalling) THEN [pc |-> pc, inst |-> rd_data] ELSE NoInst

(* A cycle without a jump: the decoder takes an instruction, or stalls. *)
Cycle(stalling) ==
    /\ IfClock(stalling, FALSE, 0, i_data)
    /\ Hand(stalling)
    /\ DataPort
    /\ InstPort
    /\ seen' = [a \in Addr |-> seen[a] \cup {mem'[a]}]

Forget == seen' = [a \in Addr |-> {mem'[a]}]

(* A cycle with a jump. The instruction at the head is still handed over:  *)
(* it is the jump itself, or the decoder flushes it.                       *)
Jump(stalling, a) ==
    /\ IfClock(stalling, TRUE, a, i_data)
    /\ Hand(stalling)
    /\ DataPort
    /\ InstPort
    /\ Forget

(* The reset line (held while software is uploaded); the RAM has none. *)
Reset ==
    /\ IfReset
    /\ fetched' = NoInst
    /\ DataPort
    /\ InstPort
    /\ Forget

Run  == Cycle(FALSE)
Hold == Cycle(TRUE)

Next == \/ Run
        \/ Hold
        \/ \E stalling \in BOOLEAN, a \in Targets : Jump(stalling, a)
        \/ Reset

Spec == Init /\ [][Next]_vars
FairSpec == Spec /\ WF_vars(Run)

-----------------------------------------------------------------------------
(* Why the two properties hold: the selectors stay aligned with the        *)
(* addresses they stand for, the word in flight continues the buffered     *)
(* ones, and every unread parcel was in memory since the last jump.        *)
InFlight == /\ Consecutive
            /\ i_data_wr_en => /\ i_data[1] \in seen[Ahead]
                              /\ i_data[2] \in seen[Inc(Ahead, 1)]
Buffered == \A k \in 0 .. 7 :
               k < Unread => inst_buf[(rd_sel_ext + k) % 8] \in seen[Inc(pc, k)]
Current  == \A a \in Addr : mem[a] \in seen[a]

FetchInv == TypeOK /\ NoOverrun /\ Aligned /\ InFlight /\ Buffered /\ Current

(* The fetcher hands over the program's instructions in order, none        *)
(* skipped, repeated or left from before the last jump, none while the     *)
(* core stalls, and redirected only by a jump or reset, whatever the       *)
(* pattern of 16- and 32-bit instructions, stalls, jumps, resets and       *)
(* stores.                                                                 *)
Stream == INSTANCE InstStream
StreamStep ==
    \/ Run /\ Stream!Continue
    \/ Hold /\ Stream!Pause
    \/ \E stalling \in BOOLEAN, a \in Targets : Jump(stalling, a) /\ Stream!Redirect(a)
    \/ Reset /\ Stream!Redirect(0)
FetchesStream == Stream!Init /\ [][StreamStep]_(Stream!streamVars)

(* Unless it is redirected again and again, an unstalled fetcher keeps     *)
(* handing over instructions: request, full and empty never lock up.       *)
Redirected == Reset \/ \E stalling \in BOOLEAN, a \in Targets : Jump(stalling, a)
FetchProgress == \/ []<><<Redirected>>_vars
                 \/ []<>(fetched # NoInst)

=============================================================================
