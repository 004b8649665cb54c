------------------------------ MODULE MCGpoll ------------------------------
(***************************************************************************)
(* The descriptors that a Linux system gives the program: the device and   *)
(* the timer of libusb are 3 and 4, the adapter is 5, the timers 6 and 7.  *)
(***************************************************************************)
EXTENDS Gpoll

MCUsbFds == {3, 4}
=============================================================================
