------------------------------- MODULE MCBroNode -------------------------------
(***************************************************************************)
(* A small instance of BroNode: a master and a slave on one connection,    *)
(* three requests and their answers, and packets with no message, with one *)
(* and with two.  The requests come from the master: Bro takes the side    *)
(* that opened the connection for the requestor.                           *)
(***************************************************************************)
EXTENDS BroNode

CONSTANTS master, slave, wire, unit, read, written, answer, poll, reply, coil, register,
          station, outstation

FromMaster(pdus) == [link |-> wire, src |-> master, dst |-> slave, pdus |-> pdus]
FromSlave(pdus)  == [link |-> wire, src |-> slave, dst |-> master, pdus |-> pdus]

Ask(func, target) ==
  [protocol |-> "Modbus", unit |-> unit, func |-> func, target |-> target, detailed |-> TRUE]

\* A function Bro has no event for, e.g. diagnostics.
Unknown == [Ask(written, register) EXCEPT !.detailed = FALSE]

\* What a response carries is not looked at.
Answer == Ask(answer, coil)

Objects(qualifier, targets) == [qualifier |-> qualifier, targets |-> targets]
Poll == [protocol |-> "DNP3", src |-> station, dest |-> outstation, func |-> poll,
         objects |-> << Objects("range", << coil >>), Objects("prefix", << register >>) >>]
Reply == [protocol |-> "DNP3", src |-> outstation, dest |-> station, func |-> reply,
          objects |-> << Objects("prefix", << coil >>), Objects("other", << register >>) >>]
Short == [Reply EXCEPT !.objects = << >>]

MCPackets == {FromMaster(<< >>), FromMaster(<< Ask(read, coil) >>),
              FromMaster(<< Unknown >>),
              FromMaster(<< Ask(read, coil), Ask(written, register) >>),
              FromSlave(<< Answer >>), FromMaster(<< Poll >>),
              FromSlave(<< Reply >>), FromSlave(<< Short >>)}

MCIdentities == {[protocol |-> "Modbus", ask |-> read, answer |-> answer,
                  requestor |-> "Alice", responder |-> "Bob"],
                 [protocol |-> "DNP3", ask |-> poll, answer |-> reply,
                  requestor |-> "Charlie", responder |-> ""]}

=============================================================================
