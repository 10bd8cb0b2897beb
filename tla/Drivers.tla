------------------------------ MODULE Drivers ------------------------------
(***************************************************************************)
(* The Python objects of machine over TI drivers that are opened and       *)
(* closed: UART (machine_uart.c), whose objects live in MicroPython's heap *)
(* beside a table of handles, and PWM, I2C, SPI and ADC (machine_pwm.c,    *)
(* machine_i2c.c, machine_spi.c, machine_adc.c), whose objects are the     *)
(* entries of a table.  machine_teardown closes what the tables hold.      *)
(*                                                                         *)
(* One port of each driver.  The driver's handle is the address of its     *)
(* configuration, the same each time the port is opened.                   *)
(***************************************************************************)
EXTENDS Integers

CONSTANT Uarts \* objects of UART for the same port

\* The drivers whose objects are their table
Tabled == {"PWM", "I2C", "SPI", "ADC"}
Drivers == Tabled \cup {"UART"}

VARIABLES
  open,    \* the drivers whose port is open
  entry,   \* the drivers whose table holds a handle
  holds,   \* the UART objects that hold a handle
  objects, \* the other drivers of which the program has an object
  crashed, \* the program used NULL as a handle, or a handle was closed twice
  deinit   \* history: a deinit() has closed the port since the last teardown

driversVars == <<open, entry, holds, objects, crashed, deinit>>

DriversInit ==
  /\ open = {} /\ entry = {} /\ holds = {} /\ objects = {}
  /\ crashed = FALSE /\ deinit = FALSE

-----------------------------------------------------------------------------
(* UART *)

\* Variant: the table is written before the handle is tested.
UartInitTableFirst(o) ==
  /\ \/ /\ "UART" \notin open
        /\ open' = open \cup {"UART"}
        /\ entry' = entry \cup {"UART"}
        /\ holds' = holds \cup {o}
     \/ /\ entry' = entry \ {"UART"}
        /\ holds' = holds \ {o}
        /\ UNCHANGED open
  /\ UNCHANGED <<objects, crashed, deinit>>

\* uart_init_helper: UART_open gives NULL when the port is open, or for want of
\* memory; the object has no handle then, and an exception is raised.
UartInit(o) ==
  /\ \/ /\ "UART" \notin open
        /\ open' = open \cup {"UART"}
        /\ entry' = entry \cup {"UART"}
        /\ holds' = holds \cup {o}
     \/ /\ holds' = holds \ {o}
        /\ UNCHANGED <<open, entry>>
  /\ UNCHANGED <<objects, crashed, deinit>>

\* deinit() closes the handle of the object and leaves the table.
UartDeinit(o) ==
  /\ crashed' = (o \notin holds)
  /\ IF o \in holds
     THEN /\ open' = open \ {"UART"}
          /\ holds' = holds \ {o}
          /\ deinit' = TRUE
     ELSE UNCHANGED <<open, holds, deinit>>
  /\ UNCHANGED <<entry, objects>>

\* any(), read(), write()
UartUse(o) ==
  /\ crashed' = (o \notin holds)
  /\ UNCHANGED <<open, entry, holds, objects, deinit>>

-----------------------------------------------------------------------------
(* PWM, I2C, SPI, ADC *)

\* The port is open afterwards, and its table says so, or neither.
Opened(d) ==
  /\ open' = open \cup {d}
  /\ entry' = entry \cup {d}
  /\ objects' = objects \cup {d}

NotOpened(d) ==
  /\ open' = open \ {d}
  /\ entry' = entry \ {d}
  /\ UNCHANGED objects

\* Variant: an open port is not closed first, and does not open again.
ReinitWithoutClose(d) ==
  /\ d # "ADC"
  /\ IF d \in entry
     THEN entry' = entry \ {d} /\ UNCHANGED <<open, objects>>
     ELSE Opened(d) \/ NotOpened(d)
  /\ UNCHANGED <<holds, crashed, deinit>>

\* init(), and the constructor with arguments: an open port is closed first;
\* when it does not open again an exception is raised.
Reinit(d) ==
  /\ d # "ADC"
  /\ Opened(d) \/ NotOpened(d)
  /\ UNCHANGED <<holds, crashed, deinit>>

\* The constructor with the port's number only: SPI's opens nothing.
Construct(d) ==
  /\ IF d = "SPI" \/ d \in entry
     THEN objects' = objects \cup {d} /\ UNCHANGED <<open, entry>>
     ELSE Opened(d) \/ NotOpened(d)
  /\ UNCHANGED <<holds, crashed, deinit>>

\* A transfer or a conversion, a change of frequency or duty
Use(d) ==
  /\ d \in objects
  /\ crashed' = (d \notin entry)
  /\ UNCHANGED <<open, entry, holds, objects, deinit>>

-----------------------------------------------------------------------------
(* The soft reset *)

\* The teardown of every driver; the program's objects are gone.  What happens
\* when a closed port is closed is undefined.
Teardown ==
  /\ IF entry \subseteq open THEN UNCHANGED crashed ELSE crashed' \in BOOLEAN
  /\ open' = open \ entry
  /\ entry' = {}
  /\ holds' = {}
  /\ objects' = {}
  /\ deinit' = FALSE

DriversProgram ==
  \/ \E o \in Uarts : UartInit(o) \/ UartDeinit(o) \/ UartUse(o)
  \/ \E d \in Tabled : Reinit(d) \/ Construct(d) \/ Use(d)

-----------------------------------------------------------------------------
(* Properties *)

DriversTypeOK ==
  /\ open \in SUBSET Drivers /\ entry \in SUBSET Drivers
  /\ holds \in SUBSET Uarts
  /\ objects \in SUBSET Tabled
  /\ crashed \in BOOLEAN /\ deinit \in BOOLEAN

\* The soft reset leaves no port open, and closes none that is not, unless the
\* program called deinit(): a port is open exactly when its table says so, but
\* for the UART after a deinit().
PortsAreReleased ==
  /\ open \subseteq entry
  /\ entry \subseteq open \/ (deinit /\ entry \ open = {"UART"})

-----------------------------------------------------------------------------
(* Why they hold *)

\* An object of UART holds a handle only of a port whose entry is in the table.
DriversInv ==
  /\ holds # {} => "UART" \in entry
  /\ PortsAreReleased
=============================================================================
