------------------------------ MODULE MCModbus ------------------------------
(***************************************************************************)
(* TLC instance of Modbus: two addresses, two values and one function code *)
(* of every way the client treats a call.  ReadHoldingRegisters and        *)
(* ReadInputRegisters run the code of ReadCoils without its amount check;  *)
(* the multiple writes run the code of WriteCoil.                          *)
(***************************************************************************)
EXTENDS Modbus

MCAddress == {1, 2}
MCValue   == {0, 1}
MCFunc    == {READ_COILS, READ_INPUT_BITS, WRITE_COIL, WRITE_REG}
=============================================================================
