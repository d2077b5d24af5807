SPECIFICATION FairGuiSpec
CONSTANTS
  Caller = {gui, tool}
  Installer = {gui}
  Gui = gui
  MonitoringThread = {t1, t2}
  NoThread = NoThread
  MaxBoxes = 2
INVARIANTS
  ServiceTypeOK
  ServiceHasBinary
  DeviceIsOpen
  OneThread
  JoinedIsTold
  GuiTypeOK
PROPERTIES
  HungForGood
  WindowAnswers
  DialogReturns
