------------------------------ MODULE MCLauncher ------------------------------
(* One start of the application: both services, both signals, and at most one *)
(* port at a time in the hands of another program.                            *)
EXTENDS Launcher

================================================================================
