-------------------------------- MODULE MCKeyGate --------------------------------
EXTENDS KeyGate

\* The years of DATES in key.rs.
Dates == <<2029, 2028, 2029, 2030, 2031, 2032, 2033, 2034, 2035, 2099>>
==================================================================================
