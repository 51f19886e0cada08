SPECIFICATION Spec
CONSTANTS
  Thread = {t1}
  ActiveMod = 8
  None = None
INVARIANT QuietIsNotBusy
