------------------------------- MODULE Servers -------------------------------
(***************************************************************************)
(* The servers side by side.  A simulation is of one design, chosen when   *)
(* it is started, and nothing is shared between two of them: the others    *)
(* stay in their initial states.                                           *)
(***************************************************************************)
EXTENDS FetchTag, FifoMonitors, SdramServer, BurstCoverage, DecoderMonitor, MipsFeed

VARIABLE design

serversVars == <<design, tagVars, fifoVars, sdramVars, burstVars, decoderVars, mipsVars>>

Init ==
    /\ design \in {"fetch_tag", "fifo", "sdram", "weight_bank", "decoder", "mips"}
    /\ InitTag
    /\ InitFifo
    /\ InitSdram
    /\ InitBurst
    /\ InitDecoder
    /\ InitMips

FetchTagServer ==
    /\ design = "fetch_tag"
    /\ NextTag
    /\ UNCHANGED <<fifoVars, sdramVars, burstVars, decoderVars, mipsVars>>

FifoServer ==
    /\ design = "fifo"
    /\ NextFifo
    /\ UNCHANGED <<tagVars, sdramVars, burstVars, decoderVars, mipsVars>>

Sdram ==
    /\ design = "sdram"
    /\ NextSdram
    /\ UNCHANGED <<tagVars, fifoVars, burstVars, decoderVars, mipsVars>>

WeightBank ==
    /\ design = "weight_bank"
    /\ NextBurst
    /\ UNCHANGED <<tagVars, fifoVars, sdramVars, decoderVars, mipsVars>>

Decoder ==
    /\ design = "decoder"
    /\ NextDecoder
    /\ UNCHANGED <<tagVars, fifoVars, sdramVars, burstVars, mipsVars>>

Mips ==
    /\ design = "mips"
    /\ NextMips
    /\ UNCHANGED <<tagVars, fifoVars, sdramVars, burstVars, decoderVars>>

Next ==
    /\ UNCHANGED design
    /\ \/ FetchTagServer
       \/ FifoServer
       \/ Sdram
       \/ WeightBank
       \/ Decoder
       \/ Mips

Spec == Init /\ [][Next]_serversVars
=============================================================================
