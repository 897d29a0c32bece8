CONSTANTS
  Command = {"mac", "ver", "uart", "sock"}
  Sets = {"uart", "sock"}
  Query <- MCQuery
  Asked <- MCAsked
  Content <- MCContent
  Image = {"v1", "v2"}
  NoFile = "nofile"
  Settings = {{"monitor", "update"}, {"update"}}
  Cgi = {"cgi1", "cgi2"}
  MaxUploads = 2
  MonitorIntvl = 2
  HeartIntvl = 1
  UpdateIntvl = 1
  MaxMessages = 2
  MaxDrops = 1
  MaxFaults = 1
  Forms <- MCForms
  Lines <- MCLines
  Beyond = {52}
  OutSize = 9
  TextMax = 7
  InsteadSum = 2
SPECIFICATION MCSpec
INVARIANTS OwnAnswers SocketsAccounted  
 
CHECK_DEADLOCK FALSE
