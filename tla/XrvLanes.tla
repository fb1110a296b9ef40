------------------------------ MODULE XrvLanes ------------------------------
(***************************************************************************)
(* The load/store part of the execution stage (rtl/xrv_ex.sv) with its     *)
(* byte lanes. The instruction in EX, a load or a store with its operands, *)
(* is one record: decoder and register file keep it for as long as the     *)
(* pipeline is stalled on it.                                              *)
(***************************************************************************)
EXTENDS Lanes, XrvLs

VARIABLES inst,   \* the last load or store EX has begun
          d_be    \* the byte enables of the request

lanesVars == <<lsVars, inst, d_be>>

Address == [word : WordAddr, lane : Lane]
Access == [op : {"load", "store"}, at : Address, size : Size, unsigned : BOOLEAN,
           data : FullWord]
NoAccess == [op |-> "none"]

LanesTypeOK == /\ LsTypeOK
               /\ inst \in Access
               /\ d_be \subseteq Lane
               /\ d_addr \in Address
               /\ {d_wr_data, dest_reg_op_load} \subseteq FullWord

NullAddress == [word |-> 0, lane |-> 0]
NullLoad == [op |-> "load", at |-> NullAddress, size |-> 4, unsigned |-> FALSE,
             data |-> ZeroWord]

LanesInit == /\ LsInit
             /\ inst = NullLoad /\ d_be = {}
             /\ d_addr = NullAddress /\ d_wr_data = ZeroWord /\ dest_reg_op_load = ZeroWord

(* One clock edge, in which EX begins the access a or none. *)
LanesClock(a, rd_data, d_wr_ready, d_rd_ready) ==
    LET begun == IF a = NoAccess THEN inst ELSE a
    IN  /\ LsClock(a.op = "store", a.op = "load", begun.at,
                   Steer(begun.data, begun.at.lane, begun.size),
                   Extend(rd_data, d_addr.lane, inst.size, inst.unsigned),
                   d_wr_ready, d_rd_ready)
        /\ inst' = begun
        /\ d_be' = IF a = NoAccess THEN d_be ELSE ByteEnable(a.at.lane, a.size)

LanesReset == LsReset /\ UNCHANGED <<inst, d_be>>

=============================================================================
