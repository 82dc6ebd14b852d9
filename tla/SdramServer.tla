---------------------------- MODULE SdramServer ----------------------------
(***************************************************************************)
(* The SDRAM controller's server (sdram_controller/                        *)
(* sdram_controller_cocotb.py) around its design                           *)
(* (sdram_controller/src/sdram_controller.sv).  A stimulus is two enables  *)
(* and a reset; the server waits for the design, drives them and lets      *)
(* clock edges pass until the design is not busy.  The enables stay driven *)
(* until the next stimulus.  Addresses and data are left out.              *)
(***************************************************************************)
EXTENDS Naturals, Integers

CONSTANTS
    CYCLES_BETWEEN_REFRESH,
    INIT_WAIT,              \* counts of the long waits of the design: 15
    REFRESH_WAIT            \* 7

ASSUME SdramAssumption ==
    /\ INIT_WAIT \in Nat
    /\ REFRESH_WAIT \in Nat
    /\ CYCLES_BETWEEN_REFRESH \in Nat
    \* The memory is initialised before a refresh is due.
    /\ INIT_WAIT + REFRESH_WAIT < CYCLES_BETWEEN_REFRESH

VARIABLES
    sdram_pc,               \* "recv", "settle", "drive", "busy", or "ended"
    stimulus,               \* of the request that is served
    wr_enable, rd_enable, rst_n,
    reset_cycles,
    started,                \* accesses started since the enables were driven
    state, state_cnt, refresh_cnt, command, busy,
    sdram_bins              \* the bins counted so far

sdramDriven == <<wr_enable, rd_enable, rst_n>>
sdramDesign == <<state, state_cnt, refresh_cnt, command, busy>>
sdramServer == <<sdram_pc, stimulus, reset_cycles, started>>
sdramVars == <<sdramServer, sdramDriven, sdramDesign, sdram_bins>>

-----------------------------------------------------------------------------
(* The design.                                                             *)

To(s, c, n) == [next |-> s, command |-> c, count |-> n]

\* What follows a state whose count has run out.
Following ==
    [INIT_NOP1   |-> To("INIT_PRE1", "PALL", 0),
     INIT_PRE1   |-> To("INIT_NOP1_1", "NOP", 0),
     INIT_NOP1_1 |-> To("INIT_REF1", "REF", 0),
     INIT_REF1   |-> To("INIT_NOP2", "NOP", REFRESH_WAIT),
     INIT_NOP2   |-> To("INIT_REF2", "REF", 0),
     INIT_REF2   |-> To("INIT_NOP3", "NOP", REFRESH_WAIT),
     INIT_NOP3   |-> To("INIT_LOAD", "MRS", 0),
     INIT_LOAD   |-> To("INIT_NOP4", "NOP", 1),
     INIT_NOP4   |-> To("IDLE", "NOP", 0),
     REF_PRE     |-> To("REF_NOP1", "NOP", 0),
     REF_NOP1    |-> To("REF_REF", "REF", 0),
     REF_REF     |-> To("REF_NOP2", "NOP", REFRESH_WAIT),
     REF_NOP2    |-> To("IDLE", "NOP", 0),
     WRIT_ACT    |-> To("WRIT_NOP1", "NOP", 1),
     WRIT_NOP1   |-> To("WRIT_CAS", "WRIT", 0),
     WRIT_CAS    |-> To("WRIT_NOP2", "NOP", 1),
     WRIT_NOP2   |-> To("IDLE", "NOP", 0),
     READ_ACT    |-> To("READ_NOP1", "NOP", 1),
     READ_NOP1   |-> To("READ_CAS", "READ", 0),
     READ_CAS    |-> To("READ_NOP2", "NOP", 1),
     READ_NOP2   |-> To("READ_READ", "NOP", 0),
     READ_READ   |-> To("IDLE", "NOP", 0)]

SdramStates == DOMAIN Following \cup {"IDLE"}

\* Faulty: a request goes before a refresh that is due.
FromIdle_RequestFirst ==
    CASE rd_enable -> To("READ_ACT", "BACT", 0)
      [] ~rd_enable /\ wr_enable -> To("WRIT_ACT", "BACT", 0)
      [] ~rd_enable /\ ~wr_enable /\ refresh_cnt >= CYCLES_BETWEEN_REFRESH ->
            To("REF_PRE", "PALL", 0)
      [] OTHER -> To("IDLE", "NOP", 0)

FromIdle ==
    IF refresh_cnt >= CYCLES_BETWEEN_REFRESH THEN To("REF_PRE", "PALL", 0)
    ELSE IF rd_enable THEN To("READ_ACT", "BACT", 0)
    ELSE IF wr_enable THEN To("WRIT_ACT", "BACT", 0)
    ELSE To("IDLE", "NOP", 0)

\* state[4] is set while the design reads or writes.
Accesses == {"READ_ACT", "READ_NOP1", "READ_CAS", "READ_NOP2", "READ_READ",
             "WRIT_ACT", "WRIT_NOP1", "WRIT_CAS", "WRIT_NOP2"}

SdramReset ==
    /\ state' = "INIT_NOP1"
    /\ command' = "NOP"
    /\ state_cnt' = INIT_WAIT
    /\ refresh_cnt' = 0
    /\ busy' = FALSE

SdramEdge ==
    LET step == IF state = "IDLE" THEN FromIdle
                ELSE IF state_cnt = 0 THEN Following[state]
                ELSE To(state, command, 0) IN
    /\ state' = step.next
    /\ command' = step.command
    /\ state_cnt' = IF state_cnt = 0 THEN step.count ELSE state_cnt - 1
    /\ refresh_cnt' = IF state = "REF_NOP2" THEN 0 ELSE (refresh_cnt + 1) % 1024
    /\ busy' = (state \in Accesses)

Clocked == IF rst_n THEN SdramEdge ELSE SdramReset

-----------------------------------------------------------------------------
\* The bin of a command, by the four wires of the memory.
SdramBins ==
    [PALL |-> "precharge", REF |-> "auto_refresh", NOP |-> "command_inhibit",
     MRS |-> "load_mode_register", BACT |-> "activate", READ |-> "read",
     WRIT |-> "write"]

\* Faulty: cas_n is not looked at.
BinOf_NoCas(c) == SdramBins[IF c = "REF" THEN "BACT" ELSE c]

BinOf(c) == SdramBins[c]

\* async_check_hits is resumed before the controller at every edge.
check_hits == sdram_bins' = sdram_bins \cup {BinOf(command')}

\* After do_reset.
InitSdram ==
    /\ sdram_pc = "recv"
    /\ stimulus = [write |-> FALSE, read |-> FALSE, reset |-> FALSE]
    /\ wr_enable = FALSE
    /\ rd_enable = FALSE
    /\ rst_n = TRUE
    /\ reset_cycles = -1
    /\ started = 0
    /\ state = "INIT_NOP1"
    /\ state_cnt = INIT_WAIT
    /\ refresh_cnt = 0
    /\ command = "NOP"
    /\ busy = FALSE
    /\ sdram_bins = {}

Driven(s) ==
    /\ rst_n' = ~s.reset
    /\ reset_cycles' = IF s.reset THEN 3 ELSE -1
    /\ wr_enable' = s.write
    /\ rd_enable' = s.read
    /\ started' = 0
    /\ sdram_pc' = "drive"

ReceiveSdram(write, read, reset) ==
    /\ sdram_pc = "recv"
    /\ stimulus' = [write |-> write, read |-> read, reset |-> reset]
    /\ IF state_cnt # 0 THEN /\ sdram_pc' = "settle"
                             /\ UNCHANGED <<sdramDriven, reset_cycles, started>>
                        ELSE Driven(stimulus')
    /\ UNCHANGED <<sdramDesign, sdram_bins>>

Started == IF rst_n /\ state = "IDLE" /\ FromIdle.command = "BACT" THEN 1 ELSE 0

\* An edge under the enables of the stimulus before.
Settle ==
    /\ sdram_pc = "settle"
    /\ Clocked
    /\ check_hits
    /\ IF state_cnt' # 0 THEN /\ started' = started + Started
                              /\ UNCHANGED <<sdram_pc, sdramDriven, reset_cycles>>
                         ELSE Driven(stimulus)
    /\ UNCHANGED stimulus

Remaining == IF sdram_pc = "busy" THEN reset_cycles - 1 ELSE reset_cycles

\* Faulty: waits for the access as well, which the enables start again at once.
Unserved_Access == busy' \/ state' \in Accesses \/ reset_cycles' > 0

Unserved == busy' \/ reset_cycles' > 0

\* An edge under its own, until the design is not busy.
Served ==
    /\ sdram_pc \in {"drive", "busy"}
    /\ Clocked
    /\ check_hits
    /\ started' = started + Started
    /\ reset_cycles' = Remaining
    /\ IF Unserved
       THEN sdram_pc' = "busy" /\ UNCHANGED rst_n
       ELSE sdram_pc' \in {"recv", "ended"} /\ rst_n' = TRUE
    /\ UNCHANGED <<stimulus, wr_enable, rd_enable>>

SdramEnded == sdram_pc = "ended" /\ UNCHANGED sdramVars

NextSdram ==
    \/ \E write, read, reset \in BOOLEAN : ReceiveSdram(write, read, reset)
    \/ Settle
    \/ Served
    \/ SdramEnded

SpecSdram == InitSdram /\ [][NextSdram]_sdramVars

-----------------------------------------------------------------------------
\* However stimuli and resets cut into the design's sequences, the commands are
\* counted in the order of the protocol: a bank is opened only by a memory that was
\* precharged, refreshed and had its mode loaded, and read or written only when open.
ProtocolOrder ==
    /\ "activate" \in sdram_bins =>
          {"precharge", "auto_refresh", "load_mode_register"} \subseteq sdram_bins
    /\ {"read", "write"} \cap sdram_bins # {} => "activate" \in sdram_bins

\* No stimulus delays a refresh by more than the access under way and its own.
RefreshInTime == refresh_cnt <= CYCLES_BETWEEN_REFRESH + REFRESH_WAIT + 13

\* The enables stay driven between two stimuli and while the server settles for the
\* next one, and yet a stimulus starts one access at most.
OneAccess == started <= 1
=============================================================================
