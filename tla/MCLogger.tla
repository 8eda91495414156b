------------------------------ MODULE MCLogger ------------------------------
\* The only constant of Logger is a number: the .cfg file gives it.
EXTENDS Logger
=============================================================================
